---- MODULE Spec2Model ----
(***************************************************************************)
(* A model of openep's free-boundary pipeline (openep/draw_routines.py):   *)
(* get_freeboundaries, the FreeBoundary dataclass and its metrics, and of  *)
(* get_voltage_electroanatomic, followed by models of draw_free_boundaries,*)
(* the Arrows data structure, the file loaders, the AnnotationWidget and   *)
(* the interactive registration script, one specification each.            *)
(*                                                                         *)
(* Conventions.  A numpy array is a TLA+ sequence; vertex indices keep the *)
(* 0-based values of the source, so vertex v has coordinates points[v+1],  *)
(* and Slice(a, start, stop) is Python's a[start:stop].  A float is a      *)
(* fixed-point integer: a length of Scale is 1.0 mesh unit, np.sqrt rounds *)
(* down to 1/Scale.  Mesh coordinates are integers.                        *)
(***************************************************************************)
EXTENDS Integers, Sequences, FiniteSets, TLC

VARIABLES
    mesh,       \* the pyvista.PolyData handed to get_freeboundaries
    info,       \* what get_freeboundaries returned: NoValue, a dict, or a raised error
    fb,         \* the FreeBoundary object built from info (NoValue before)
    sep,        \* last value returned by fb.separate_boundaries()
    lengths,    \* last value returned by fb.calculate_lengths()
    areas,      \* last value returned by fb.calculate_areas()
    mesh_case,  \* the Case handed to get_voltage_electroanatomic
    volt,       \* what the interpolation returned or raised (NoValue before)
    interp,     \* the OpenEPDataInterpolator the fit is made with
    interp_call, \* the arguments x0, d0, x1 its interpolate() received
    arrows,     \* an Arrows object
    arrows_copy, \* what arrows.copy() returned (NoValue before)
    last_call,  \* the last call made on one of the two Arrows objects
    raised,     \* the exception that call raised, None if it returned
    file,       \* the file a loader is called with
    loaded,     \* the Case the loader returned, or the exception it raised
    anat,       \* the call of get_anatomical_structures and what it returned or raised
    plotter,    \* what draw_free_boundaries returned or raised (NoValue before)
    signal_artists,      \* AnnotationWidget.signal_artists: label -> line artist
    active_signal_label, \* AnnotationWidget.active_signal_label
    annotation_artists,  \* AnnotationWidget.annotation_artists: the managed labels
    background, \* AnnotationWidget.background: Absent until a draw handler stores it
    widget_call, \* the last method or handler run on the widget and its outcome
    iter,       \* the registration script's global iteration counter
    all_iterations_points, \* the script's global history of point sets
    source_case, \* the registration state held by the script's source case
    sliders,    \* the script's sliders: their ranges and values
    callback    \* the last callback of the script and its outcome

voltVars == <<mesh_case, volt, interp, interp_call>>

boundaryVars == <<mesh, info, fb, sep, lengths, areas>>

arrowVars == <<arrows, arrows_copy, last_call, raised>>

loadVars == <<file, loaded>>

anatVars == <<anat>>

drawVars == <<plotter>>

widgetVars ==
    <<signal_artists, active_signal_label, annotation_artists, background, widget_call>>

registrationVars == <<iter, all_iterations_points, source_case, sliders, callback>>

vars == <<boundaryVars, voltVars, arrowVars, loadVars, anatVars, drawVars, widgetVars,
          registrationVars>>

\* nothing returned yet / Python's None / a Python value
NoValue == [kind |-> "none"]
None == [kind |-> "None"]
Some(x) == [kind |-> "value", v |-> x]

-----------------------------------------------------------------------------
(* Bounds of the model *)

\* cube meshes: the closed unit cube with at most MaxRemoved triangles removed
MaxRemoved == 3
\* the flat mesh: GridW x GridH unit squares with two unit-square holes
GridW == 5
GridH == 3

\* cases: NumPoints mapping points, each an electrogram of NumSamples samples
\* that rises by 0..MaxVolt above its baseline
NumPoints == 4
NumSamples == 2
MaxVolt == 1

\* direct calls of the interpolator: at most MaxFit samples, thresholds of
\* 1..MaxThreshold half units
MaxFit == 4
MaxThreshold == 2

\* Arrows: the surface the arrows belong to has NumCells cells
NumCells == 2

\* loaders: files of NumFilePoints points and at most MaxTriangles triangles
NumFilePoints == 3
MaxTriangles == 2
MaxLines == 4

\* fixed-point resolution of a float: 1.0 is Scale
Scale == 10 * 10 * 10

-----------------------------------------------------------------------------
(* Sequence and arithmetic helpers (numpy primitives) *)

Range(s) == {s[i] : i \in DOMAIN s}

Min(S) == CHOOSE x \in S : \A y \in S : x <= y

RECURSIVE SumSeq(_)
SumSeq(s) == IF s = <<>> THEN 0 ELSE s[1] + SumSeq(Tail(s))

\* np.concatenate of a list of 1-D arrays
RECURSIVE Concat(_)
Concat(ss) == IF ss = <<>> THEN <<>> ELSE ss[1] \o Concat(Tail(ss))

\* np.cumsum
CumSum(s) == [i \in 1..Len(s) |-> SumSeq(SubSeq(s, 1, i))]

\* a[start:stop] for an integer start >= 0 and a stop that is None or Some(n), n >= 0
Slice(a, start, stop) ==
    LET hi == IF stop.kind = "None" THEN Len(a)
              ELSE IF stop.v > Len(a) THEN Len(a) ELSE stop.v
    IN  IF start >= hi THEN <<>> ELSE SubSeq(a, start + 1, hi)

\* a[mask] for a boolean mask of the same length
RECURSIVE Masked(_, _)
Masked_keeps_all(a, mask) == a

Masked(a, mask) ==
    IF a = <<>> THEN <<>>
    ELSE (IF mask[1] THEN <<a[1]>> ELSE <<>>) \o Masked(Tail(a), Tail(mask))

Reverse(s) == [i \in 1..Len(s) |-> s[Len(s) + 1 - i]]

PairLess(e, f) == e[1] < f[1] \/ (e[1] = f[1] /\ e[2] < f[2])

\* the rows of a finite set of integer pairs in ascending (lexicographic) order
RECURSIVE SortedPairs(_)
SortedPairs(S) ==
    IF S = {} THEN <<>>
    ELSE LET m == CHOOSE x \in S : \A y \in S \ {x} : PairLess(x, y)
         IN  <<m>> \o SortedPairs(S \ {m})

\* floor of the square root, by bisection
RECURSIVE Bisect(_, _, _)
Bisect(n, lo, hi) ==
    IF hi - lo <= 1 THEN lo
    ELSE LET mid == (lo + hi) \div 2
         IN  IF mid * mid <= n THEN Bisect(n, mid, hi) ELSE Bisect(n, lo, mid)

\* (the root of a 32-bit integer is below 46341)
ISqrt(n) == Bisect(n, 0, IF n < 46340 THEN n + 1 ELSE 46341)

Sub3(p, q) == <<p[1] - q[1], p[2] - q[2], p[3] - q[3]>>
Add3(p, q) == <<p[1] + q[1], p[2] + q[2], p[3] + q[3]>>
Mul3(k, p) == <<k * p[1], k * p[2], k * p[3]>>
Dot3(p, q) == p[1] * q[1] + p[2] * q[2] + p[3] * q[3]
Cross3(p, q) == <<p[2] * q[3] - p[3] * q[2],
                  p[3] * q[1] - p[1] * q[3],
                  p[1] * q[2] - p[2] * q[1]>>

\* np.sqrt(np.sum(np.square(v))) of an integer vector, in 1/Scale
Norm(v) == ISqrt(Dot3(v, v) * Scale * Scale)

-----------------------------------------------------------------------------
(* The meshes handed to the pipeline: pyvista.PolyData as points and faces *)

\* the unit cube: vertex v = x + 2y + 4z
CubePoints == [i \in 1..8 |-> <<(i - 1) % 2, ((i - 1) \div 2) % 2, (i - 1) \div 4>>]

\* its 6 square faces as 12 triangles; the top (z = 1) is triangles 3 and 4
CubeFaces ==
    << <<0, 3, 1>>, <<0, 2, 3>>,      \* bottom z = 0
       <<4, 5, 7>>, <<4, 7, 6>>,      \* top    z = 1
       <<0, 1, 5>>, <<0, 5, 4>>,      \* front  y = 0
       <<2, 7, 3>>, <<2, 6, 7>>,      \* back   y = 1
       <<0, 4, 6>>, <<0, 6, 2>>,      \* left   x = 0
       <<1, 3, 7>>, <<1, 7, 5>> >>    \* right  x = 1

TopFaces == {3, 4}

CubeMesh(removed) ==
    [points |-> CubePoints,
     faces  |-> Masked(CubeFaces, [i \in 1..Len(CubeFaces) |-> i \notin removed])]

ClosedCube == CubeMesh({})
OpenTopCube == CubeMesh(TopFaces)

\* a flat GridW x GridH sheet of unit squares (z = 0), vertex v = x + (GridW+1) y,
\* with the two unit squares at cells (1,1) and (3,1) cut out
FlatPoints ==
    [i \in 1..((GridW + 1) * (GridH + 1)) |->
        <<(i - 1) % (GridW + 1), (i - 1) \div (GridW + 1), 0>>]

Holes == {<<1, 1>>, <<3, 1>>}

FlatCellFaces(c) ==
    LET cx  == c % GridW
        cy  == c \div GridW
        v00 == cx + (GridW + 1) * cy
        v10 == v00 + 1
        v01 == v00 + GridW + 1
        v11 == v01 + 1
    IN  IF <<cx, cy>> \in Holes THEN <<>>
        ELSE << <<v00, v10, v11>>, <<v00, v11, v01>> >>

FlatTwoHoles ==
    [points |-> FlatPoints,
     faces  |-> Concat([c \in 1..(GridW * GridH) |-> FlatCellFaces(c - 1)])]

\* the closed cube with a fin: a 13th triangle on the bottom's diagonal, so that
\* the edges (0, 3) and (3, 7) belong to three triangles
FinnedCube == [points |-> CubePoints, faces |-> CubeFaces \o << <<0, 3, 7>> >>]

Meshes ==
    {CubeMesh(r) : r \in {s \in SUBSET (1..Len(CubeFaces)) : Cardinality(s) <= MaxRemoved}}
    \cup {FinnedCube}

-----------------------------------------------------------------------------
(* tm_mesh.outline(): trimesh's boundary path of a mesh.  The library is   *)
(* not part of the repository; it is modelled by what it computes:         *)
(* faces_to_path keeps the sorted edges that occur once, graph.traversals  *)
(* orders each connected component depth first (scipy's depth_first_order  *)
(* on the undirected graph) from a node popped from a set, and             *)
(* graph.fill_traversals splits every ordering where two consecutive nodes *)
(* are no edge, closes a run whose ends are joined by an edge, and appends *)
(* every edge left over as an entity of its own.  The entities' points are *)
(* indices into the mesh's vertices (the mesh's vertices are distinct, so  *)
(* the path's vertex merge renumbers nothing).                             *)

SortPair(a, b) == IF a <= b THEN <<a, b>> ELSE <<b, a>>

\* mesh.edges_sorted: three sorted edges per face
FaceEdges(f) == <<SortPair(f[1], f[2]), SortPair(f[2], f[3]), SortPair(f[3], f[1])>>

EdgesSorted(faces) == Concat([i \in 1..Len(faces) |-> FaceEdges(faces[i])])

\* grouping.group_rows(edges, require_count=1): the rows that occur exactly once
GroupRowsOnce(edges) ==
    {edges[i] : i \in {j \in DOMAIN edges :
        Cardinality({k \in DOMAIN edges : edges[k] = edges[j]}) = 1}}

\* scipy.sparse.csgraph.depth_first_order(graph, start, directed=False): from the
\* node on top of the stack the first unvisited neighbour of the graph's row, then
\* of the transposed graph's row; the (sorted) edge (a, b) is the entry row a, column b
RECURSIVE DepthFirst(_, _, _, _)
DepthFirst(E, stack, order, flag) ==
    IF stack = <<>> THEN order
    ELSE LET pnode == stack[Len(stack)]
             row   == {e[2] : e \in {x \in E : x[1] = pnode}} \ flag
             col   == {e[1] : e \in {x \in E : x[2] = pnode}} \ flag
         IN  IF row # {}
             THEN DepthFirst(E, Append(stack, Min(row)), Append(order, Min(row)),
                             flag \cup {Min(row)})
             ELSE IF col # {}
             THEN DepthFirst(E, Append(stack, Min(col)), Append(order, Min(col)),
                             flag \cup {Min(col)})
             ELSE DepthFirst(E, SubSeq(stack, 1, Len(stack) - 1), order, flag)

depth_first_order(E, start) == DepthFirst(E, <<start>>, <<start>>, {start})

\* graph.traversals(edges, mode="dfs"): one ordering per connected component.  The
\* start of each is nodes.pop() of a Python set, "any node": every order of popping
\* is a possible outcome, so this is the set of the outcomes
RECURSIVE Traversals(_, _, _)
Traversals(E, nodes, acc) ==
    IF nodes = {} THEN {acc}
    ELSE UNION { LET ordered == depth_first_order(E, start)
                 IN  Traversals(E, nodes \ Range(ordered), Append(acc, ordered))
                 : start \in nodes }

\* grouping.blocks(contained, min_len=1, only_nonzero=True): the maximal runs of
\* consecutive True entries, each as <<first, last>>
Blocks(contained) ==
    LET n == Len(contained)
        starts == {i \in 1..n : contained[i] /\ (i = 1 \/ ~contained[i - 1])}
    IN  [j \in 1..Cardinality(starts) |->
            LET s == CHOOSE i \in starts : Cardinality({k \in starts : k < i}) = j - 1
                e == Min({i \in s..n : i = n \/ ~contained[i + 1]})
            IN  <<s, e>>]

\* the closing step of graph.split_traversal
CloseTraversal(t, E) ==
    IF Len(t) <= 2 THEN t
    ELSE IF t[1] = t[Len(t)] THEN t
    ELSE IF SortPair(t[1], t[Len(t)]) \in E THEN Append(t, t[1])
    ELSE t

\* graph.split_traversal(traversal, edges)
split_traversal(traversal, E) ==
    LET n == Len(traversal)
        contained == [i \in 1..(n - 1) |-> SortPair(traversal[i], traversal[i + 1]) \in E]
        blocks == Blocks(contained)
        split == IF \A i \in 1..(n - 1) : contained[i]
                 THEN <<traversal>>
                 ELSE [j \in 1..Len(blocks) |->
                          SubSeq(traversal, blocks[j][1], blocks[j][2] + 1)]
    IN  [j \in 1..Len(split) |-> CloseTraversal(split[j], E)]

\* graph.fill_traversals(traversals, edges)
fill_traversals(traversals, E) ==
    IF Len(traversals) = 0 THEN <<>>
    ELSE LET splits == Concat([i \in 1..Len(traversals) |->
                                  split_traversal(traversals[i], E)])
             included == UNION { {SortPair(splits[j][i], splits[j][i + 1]) :
                                    i \in 1..(Len(splits[j]) - 1)} : j \in 1..Len(splits) }
             missing == SortedPairs(E \ included)
         IN  splits \o [i \in 1..Len(missing) |-> <<missing[i][1], missing[i][2]>>]

\* the possible values of tm_mesh.outline().entities, each entity by its .points
Outlines(m) ==
    LET E == GroupRowsOnce(EdgesSorted(m.faces))
        nodes == {e[1] : e \in E} \cup {e[2] : e \in E}
    IN  {fill_traversals(t, E) : t \in Traversals(E, nodes, <<>>)}

-----------------------------------------------------------------------------
(* get_freeboundaries *)

ValueError == [kind |-> "error", type |-> "ValueError"]

\* a faulty keep_neighbours: the rows n_nodes_per_boundary[:-1].cumsum(), one too far
keep_neighbours_shifted(n_nodes_per_boundary, n_pairs) ==
    LET n == Len(n_nodes_per_boundary)
        dropped == Range(CumSum(SubSeq(n_nodes_per_boundary, 1, n - 1)))
    IN  [i \in 1..n_pairs |-> (i - 1) \notin dropped]

\* keep_neighbours: every pair kept but those at (0-based) rows
\* n_nodes_per_boundary[:-1].cumsum() - 1
keep_neighbours(n_nodes_per_boundary, n_pairs) ==
    LET n == Len(n_nodes_per_boundary)
        dropped == {c - 1 : c \in Range(CumSum(SubSeq(n_nodes_per_boundary, 1, n - 1)))}
    IN  [i \in 1..n_pairs |-> (i - 1) \notin dropped]

\* a faulty get_freeboundaries: the pairs that join two boundaries are kept
get_freeboundaries_unmasked(m, boundaries_lines) ==
    IF Len(boundaries_lines) = 0 THEN ValueError
    ELSE
    LET all_boundaries_nodes == Concat(boundaries_lines)
        free_boundaries == [i \in 1..(Len(all_boundaries_nodes) - 1) |->
                               <<all_boundaries_nodes[i], all_boundaries_nodes[i + 1]>>]
    IN  [kind |-> "dict",
         freeboundary |-> free_boundaries,
         free_boundary_points |->
            [i \in 1..Len(free_boundaries) |-> m.points[free_boundaries[i][1] + 1]],
         n_boundaries |-> Len(boundaries_lines),
         n_nodes_per_boundary |->
            [i \in 1..Len(boundaries_lines) |-> Len(boundaries_lines[i])]]

\* the body of get_freeboundaries, given the entities of tm_mesh.outline();
\* np.concatenate of an empty list raises ValueError
get_freeboundaries(m, boundaries_lines) ==
    IF Len(boundaries_lines) = 0 THEN ValueError
    ELSE
    LET all_boundaries_nodes == Concat(boundaries_lines)
        n_nodes_per_boundary ==
            [i \in 1..Len(boundaries_lines) |-> Len(boundaries_lines[i])]
        n_boundaries == Len(boundaries_lines)
        pairs == [i \in 1..(Len(all_boundaries_nodes) - 1) |->
                     <<all_boundaries_nodes[i], all_boundaries_nodes[i + 1]>>]
        free_boundaries ==
            Masked(pairs, keep_neighbours(n_nodes_per_boundary, Len(pairs)))
        free_boundaries_points ==
            [i \in 1..Len(free_boundaries) |-> m.points[free_boundaries[i][1] + 1]]
    IN  [kind |-> "dict",
         freeboundary |-> free_boundaries,
         free_boundary_points |-> free_boundaries_points,
         n_boundaries |-> n_boundaries,
         n_nodes_per_boundary |-> n_nodes_per_boundary]

-----------------------------------------------------------------------------
(* class FreeBoundary.  Its field mesh is a reference to the PolyData: the *)
(* object's mesh is the variable mesh, not a copy held in the record.      *)

\* a faulty __post_init__: the start indices count the closing node of every loop
FreeBoundary_closing_counted(d) ==
    LET n == d.n_nodes_per_boundary
        start_indices == <<0>> \o CumSum(SubSeq(n, 1, Len(n) - 1))
        stop_indices ==
            [i \in 1..(Len(start_indices) - 1) |-> Some(start_indices[i + 1])] \o <<None>>
    IN  [kind |-> "FreeBoundary",
         freeboundary |-> d.freeboundary,
         free_boundary_points |-> d.free_boundary_points,
         n_boundaries |-> d.n_boundaries,
         n_nodes_per_boundary |-> n,
         start_indices |-> start_indices,
         stop_indices |-> stop_indices,
         boundary_meshes |-> None]

\* FreeBoundary(mesh, **info): the dataclass fields and __post_init__
FreeBoundary(d) ==
    LET n == d.n_nodes_per_boundary
        start_indices ==
            <<0>> \o CumSum([i \in 1..(Len(n) - 1) |-> n[i] - 1])
        stop_indices ==
            [i \in 1..(Len(start_indices) - 1) |-> Some(start_indices[i + 1])] \o <<None>>
    IN  [kind |-> "FreeBoundary",
         freeboundary |-> d.freeboundary,
         free_boundary_points |-> d.free_boundary_points,
         n_boundaries |-> d.n_boundaries,
         n_nodes_per_boundary |-> n,
         start_indices |-> start_indices,
         stop_indices |-> stop_indices,
         boundary_meshes |-> None]

separate_boundaries(f) ==
    [i \in 1..Len(f.start_indices) |->
        Slice(f.freeboundary, f.start_indices[i], f.stop_indices[i])]

\* a faulty _line_length: the distances from the first point, not between neighbours
line_length_from_first(points) ==
    SumSeq([i \in 1..(Len(points) - 1) |-> Norm(Sub3(points[i + 1], points[1]))])

\* FreeBoundary._line_length
line_length(points) ==
    LET distance_between_neighbours ==
            [i \in 1..(Len(points) - 1) |-> Norm(Sub3(points[i + 1], points[i]))]
    IN  SumSeq(distance_between_neighbours)

calculate_lengths(f) ==
    [i \in 1..Len(f.start_indices) |->
        line_length(Slice(f.free_boundary_points, f.start_indices[i], f.stop_indices[i]))]

\* a faulty roll: the last entry does not wrap around to the first
RollBack_no_wrap(a) == [i \in 1..Len(a) |-> IF i < Len(a) THEN a[i + 1] ELSE a[i]]

\* np.roll(a, shift=-1)
RollBack(a) == [i \in 1..Len(a) |-> a[(i % Len(a)) + 1]]

\* One boundary mesh of _create_boundary_meshes.  The centre is the mean of the
\* k points, so the PolyData's points are kept as numerators over the common
\* denominator den = k: points[1] is the sum of the loop's points (k * centre),
\* points[1 + j] is k * (the j-th point).  Faces index points from 0.
BoundaryMesh(m, boundary) ==
    LET k == Len(boundary)
        pts == [i \in 1..k |-> m.points[boundary[i][1] + 1]]
        RECURSIVE Sum3(_)
        Sum3(s) == IF s = <<>> THEN <<0, 0, 0>> ELSE Add3(s[1], Sum3(Tail(s)))
        points == <<Sum3(pts)>> \o [i \in 1..k |-> Mul3(k, pts[i])]
        num_points == Len(points)
        vertex_one == [i \in 1..(num_points - 1) |-> 0]
        vertex_two == [i \in 1..(num_points - 1) |-> i]
        vertex_three == RollBack(vertex_two)
    IN  [den |-> k,
         points |-> points,
         faces |-> [i \in 1..(num_points - 1) |->
                       <<vertex_one[i], vertex_two[i], vertex_three[i]>>]]

\* FreeBoundary._create_boundary_meshes: the value stored in _boundary_meshes
create_boundary_meshes(f, m) ==
    LET boundaries == separate_boundaries(f)
    IN  [i \in 1..Len(boundaries) |-> BoundaryMesh(m, boundaries[i])]

\* area of the triangle (a, b, c) of points given over the denominator den:
\* half the norm of the cross product
TriangleArea(a, b, c, den) ==
    LET x == Cross3(Sub3(b, a), Sub3(c, a))
    IN  (ISqrt(Dot3(x, x)) * Scale) \div (2 * den * den)

\* pyvista.PolyData.area: the sum of the areas of the cells
MeshArea(pd) ==
    SumSeq([i \in 1..Len(pd.faces) |->
        TriangleArea(pd.points[pd.faces[i][1] + 1], pd.points[pd.faces[i][2] + 1],
                     pd.points[pd.faces[i][3] + 1], pd.den)])

\* trimesh.Trimesh(vertices=X, faces=TRI).area in get_anatomical_structures: X
\* is the centre and the k points, TRI the triangles (0, j, j + 1) and (0, k, 1)
TriangleFanArea(coords) ==
    LET k == Len(coords)
        RECURSIVE Sum3(_)
        Sum3(s) == IF s = <<>> THEN <<0, 0, 0>> ELSE Add3(s[1], Sum3(Tail(s)))
    IN  SumSeq([j \in 1..k |->
            TriangleArea(Sum3(coords), Mul3(k, coords[j]), Mul3(k, coords[(j % k) + 1]), k)])

\* the array calculate_areas returns, given the boundary meshes it reads
calculate_areas(boundary_meshes) ==
    [i \in 1..Len(boundary_meshes) |-> MeshArea(boundary_meshes[i])]

-----------------------------------------------------------------------------
(* The boundary pipeline as a state machine *)

NoCase == [kind |-> "none"]

\* get_anatomical_structures is not called
AnatIdle == anat = NoValue

\* draw_free_boundaries is not called
DrawIdle == plotter = NoValue

\* no AnnotationWidget exists
WidgetIdle ==
    /\ signal_artists = NoValue
    /\ active_signal_label = NoValue
    /\ annotation_artists = NoValue
    /\ background = NoValue
    /\ widget_call = NoValue

\* the registration script is not running
RegistrationIdle ==
    /\ iter = NoValue
    /\ all_iterations_points = NoValue
    /\ source_case = NoValue
    /\ sliders = NoValue
    /\ callback = NoValue

\* no loader is called
LoadIdle ==
    /\ file = NoValue
    /\ loaded = NoValue

\* no Arrows object is in play
ArrowsIdle ==
    /\ arrows = NoValue
    /\ arrows_copy = NoValue
    /\ last_call = NoValue
    /\ raised = NoValue

\* no case is loaded and no interpolator exists
VoltIdle ==
    /\ mesh_case = NoCase
    /\ volt = NoValue
    /\ interp = NoValue
    /\ interp_call = NoValue

Init ==
    /\ mesh \in Meshes
    /\ info = NoValue
    /\ fb = NoValue
    /\ sep = NoValue
    /\ lengths = NoValue
    /\ areas = NoValue
    /\ VoltIdle
    /\ ArrowsIdle
    /\ LoadIdle
    /\ AnatIdle
    /\ DrawIdle
    /\ WidgetIdle
    /\ RegistrationIdle

\* info = get_freeboundaries(mesh)
GetFreeboundaries ==
    /\ info = NoValue
    /\ \E boundaries_lines \in Outlines(mesh) :
           info' = get_freeboundaries(mesh, boundaries_lines)
    /\ UNCHANGED <<mesh, fb, sep, lengths, areas, voltVars, arrowVars, loadVars, anatVars,
                   drawVars, widgetVars, registrationVars>>

\* fb = FreeBoundary(mesh, **info)
NewFreeBoundary ==
    /\ info # NoValue
    /\ info.kind = "dict"
    /\ fb = NoValue
    /\ fb' = FreeBoundary(info)
    /\ UNCHANGED <<mesh, info, sep, lengths, areas, voltVars, arrowVars, loadVars, anatVars,
                   drawVars, widgetVars, registrationVars>>

SeparateBoundaries ==
    /\ fb # NoValue
    /\ sep' = Some(separate_boundaries(fb))
    /\ UNCHANGED <<mesh, info, fb, lengths, areas, voltVars, arrowVars, loadVars, anatVars,
                   drawVars, widgetVars, registrationVars>>

CalculateLengths ==
    /\ fb # NoValue
    /\ lengths' = Some(calculate_lengths(fb))
    /\ UNCHANGED <<mesh, info, fb, sep, areas, voltVars, arrowVars, loadVars, anatVars,
                   drawVars, widgetVars, registrationVars>>

\* calculate_areas creates the boundary meshes on its first call only
CalculateAreas ==
    /\ fb # NoValue
    /\ LET boundary_meshes ==
               IF fb.boundary_meshes.kind = "None"
               THEN create_boundary_meshes(fb, mesh)
               ELSE fb.boundary_meshes.v
       IN  /\ fb' = [fb EXCEPT !.boundary_meshes = Some(boundary_meshes)]
           /\ areas' = Some(calculate_areas(boundary_meshes))
    /\ UNCHANGED <<mesh, info, sep, lengths, voltVars, arrowVars, loadVars, anatVars,
                   drawVars, widgetVars, registrationVars>>

Next ==
    \/ GetFreeboundaries
    \/ NewFreeBoundary
    \/ SeparateBoundaries
    \/ CalculateLengths
    \/ CalculateAreas

Spec == Init /\ [][Next]_vars

\* the same pipeline on the flat mesh with two holes
InitFlat ==
    /\ mesh = FlatTwoHoles
    /\ info = NoValue
    /\ fb = NoValue
    /\ sep = NoValue
    /\ lengths = NoValue
    /\ areas = NoValue
    /\ VoltIdle
    /\ ArrowsIdle
    /\ LoadIdle
    /\ AnatIdle
    /\ DrawIdle
    /\ WidgetIdle
    /\ RegistrationIdle

SpecFlat == InitFlat /\ [][Next]_vars

-----------------------------------------------------------------------------
(* The pipeline on a mesh that its owner changes while a FreeBoundary      *)
(* holds it: the cube with one triangle or more removed, whose points are  *)
(* scaled in place (mesh.points *= 2).                                     *)

OpenCubes ==
    {CubeMesh(r) : r \in {s \in SUBSET (1..Len(CubeFaces)) :
                              Cardinality(s) >= 1 /\ Cardinality(s) < MaxRemoved}}

InitStale ==
    /\ mesh \in OpenCubes
    /\ info = NoValue
    /\ fb = NoValue
    /\ sep = NoValue
    /\ lengths = NoValue
    /\ areas = NoValue
    /\ VoltIdle
    /\ ArrowsIdle
    /\ LoadIdle
    /\ AnatIdle
    /\ DrawIdle
    /\ WidgetIdle
    /\ RegistrationIdle

\* fb.mesh.points *= 2, once; what the calls returned before is out of date and
\* dropped, the FreeBoundary object is not told
ScalePoints ==
    /\ fb # NoValue
    /\ mesh.points = CubePoints
    /\ mesh' = [mesh EXCEPT !.points = [i \in 1..Len(mesh.points) |-> Mul3(2, mesh.points[i])]]
    /\ sep' = NoValue
    /\ lengths' = NoValue
    /\ areas' = NoValue
    /\ UNCHANGED <<info, fb, voltVars, arrowVars, loadVars, anatVars,
                   drawVars, widgetVars, registrationVars>>

NextStale == Next \/ ScalePoints

SpecStale == InitStale /\ [][NextStale]_vars

-----------------------------------------------------------------------------
(* get_anatomical_structures(mesh_case, plot): the case's nodes and        *)
(* indices are the points and faces of mesh.                               *)

NameError == [kind |-> "error", type |-> "NameError"]
TypeError == [kind |-> "error", type |-> "TypeError"]

\* the names bound at the top level of draw_routines.py
ModuleNames ==
    {"dataclass", "List", "np", "tm", "pv", "case_routines", "plot", "volt",
     "_create_trimesh", "_create_pymesh", "FreeBoundary", "get_freeboundaries", "get_freeboundary_points",
     "draw_free_boundaries", "get_anatomical_structures", "draw_map",
     "get_voltage_electroanatomic"}

\* the parameters of draw_free_boundaries; the first has no default
draw_free_boundaries_parameters == {"free_boundaries", "colours", "width", "plotter"}

\* the keywords get_anatomical_structures calls draw_free_boundaries with
draw_free_boundaries_keywords ==
    {"mesh_case", "fb_points", "fb_col", "fb_width", "mesh_surf_color", "opacity",
     "smooth_shading", "use_transparency", "lighting"}

\* binding the arguments of a call: a keyword that is no parameter, or a
\* parameter without default that is not given, is a TypeError
BindCall(parameters, required, keywords) ==
    IF keywords \subseteq parameters /\ required \subseteq keywords THEN None ELSE TypeError

get_anatomical_structures(m, plot, mesh_outline_entities) ==
    LET freeboundary_points ==
            [i \in 1..Len(mesh_outline_entities) |->
                [j \in 1..Len(mesh_outline_entities[i]) |->
                    m.points[mesh_outline_entities[i][j] + 1]]]
        \* the loop over the boundaries: its first pass looks up line_length
        loop == IF Len(freeboundary_points) >= 1 /\ "line_length" \notin ModuleNames
                THEN NameError
                ELSE None
        length == [i \in 1..Len(freeboundary_points) |-> line_length(freeboundary_points[i])]
        area == [i \in 1..Len(freeboundary_points) |->
                    TriangleFanArea(freeboundary_points[i])]
        drawn == IF plot
                 THEN BindCall(draw_free_boundaries_parameters, {"free_boundaries"},
                               draw_free_boundaries_keywords)
                 ELSE None
    IN  IF loop.kind = "error" THEN loop
        ELSE IF drawn.kind = "error" THEN drawn
        ELSE [kind |-> "dict",
              FreeboundaryPoints |-> freeboundary_points,
              Lengths |-> length,
              Area |-> area]

\* the cube with no triangle or more removed
CaseMeshes == OpenCubes \cup {ClosedCube}

InitAnat ==
    /\ mesh \in CaseMeshes
    /\ info = NoValue
    /\ fb = NoValue
    /\ sep = NoValue
    /\ lengths = NoValue
    /\ areas = NoValue
    /\ VoltIdle
    /\ ArrowsIdle
    /\ LoadIdle
    /\ anat = NoValue
    /\ DrawIdle
    /\ WidgetIdle
    /\ RegistrationIdle

\* anat = get_anatomical_structures(mesh_case, plot), or the exception raised
GetAnatomicalStructures ==
    /\ anat = NoValue
    /\ \E plot \in BOOLEAN, mesh_outline_entities \in Outlines(mesh) :
           anat' = [plot |-> plot,
                    result |-> get_anatomical_structures(mesh, plot, mesh_outline_entities)]
    /\ UNCHANGED <<boundaryVars, voltVars, arrowVars, loadVars,
                   drawVars, widgetVars, registrationVars>>

NextAnat == GetAnatomicalStructures

SpecAnat == InitAnat /\ [][NextAnat]_vars

-----------------------------------------------------------------------------
(* draw_free_boundaries.  A pyvista.Plotter is the list of meshes and the  *)
(* list of polylines added to it.                                          *)

\* the largest number of free boundaries of a mesh that is drawn
MaxLoops == 8

IndexError == [kind |-> "error", type |-> "IndexError"]

\* the default value of the parameter colours
default_colours == <<"blue", "yellow", "green", "red", "orange", "brown", "magenta">>

\* the default value of the parameter width
default_width == 10

\* pv.Plotter() after add_mesh(free_boundaries.mesh, ...)
NewPlotter(m) == [kind |-> "Plotter", meshes |-> <<m>>, lines |-> <<>>]

\* mesh.points[boundary[:, 0]] followed by its first row
boundary_points(m, boundary) ==
    LET points == [j \in 1..Len(boundary) |-> m.points[boundary[j][1] + 1]]
    IN  points \o SubSeq(points, 1, 1)

\* the loop over enumerate(free_boundaries.separate_boundaries()) from the
\* (1-based) position index on; colours[boundary_index] raises IndexError
\* past the end of colours
RECURSIVE DrawLoop(_, _, _, _, _, _)
DrawLoop(boundaries, index, m, colours, width, p) ==
    IF index > Len(boundaries) THEN p
    ELSE IF index > Len(colours) THEN IndexError
    ELSE DrawLoop(boundaries, index + 1, m, colours, width,
                  [p EXCEPT !.lines = Append(@, [points |-> boundary_points(m, boundaries[index]),
                                                 color |-> colours[index],
                                                 width |-> width])])

\* draw_free_boundaries(free_boundaries, colours, width, plotter), where m is
\* free_boundaries.mesh
draw_free_boundaries(free_boundaries, m, colours, width, p) ==
    DrawLoop(separate_boundaries(free_boundaries), 1, m, colours, width,
             IF p = None THEN NewPlotter(m) ELSE p)

\* a mesh of n triangles that share no vertex: n free boundaries of 3 edges
Islands(n) ==
    [points |-> Concat([k \in 1..n |-> << <<3 * (k - 1), 0, 0>>,
                                          <<3 * (k - 1) + 1, 0, 0>>,
                                          <<3 * (k - 1), 1, 0>> >>]),
     faces |-> [k \in 1..n |-> <<3 * (k - 1), 3 * (k - 1) + 1, 3 * (k - 1) + 2>>]]

\* the traversals that start each time from the lowest node not yet visited
RECURSIVE LowestTraversals(_, _, _)
LowestTraversals(E, nodes, acc) ==
    IF nodes = {} THEN acc
    ELSE LET ordered == depth_first_order(E, Min(nodes))
         IN  LowestTraversals(E, nodes \ Range(ordered), Append(acc, ordered))

\* one of Outlines(m): the entities when every traversal starts from the lowest
\* node left
LowestOutline(m) ==
    LET E == GroupRowsOnce(EdgesSorted(m.faces))
        nodes == {e[1] : e \in E} \cup {e[2] : e \in E}
    IN  fill_traversals(LowestTraversals(E, nodes, <<>>), E)

InitDraw ==
    /\ mesh \in {Islands(n) : n \in 1..MaxLoops} \cup OpenCubes
    /\ info = NoValue
    /\ fb = NoValue
    /\ sep = NoValue
    /\ lengths = NoValue
    /\ areas = NoValue
    /\ VoltIdle
    /\ ArrowsIdle
    /\ LoadIdle
    /\ AnatIdle
    /\ DrawIdle
    /\ WidgetIdle
    /\ RegistrationIdle

\* info = get_freeboundaries(mesh), the outline taken in its lowest-node order
GetFreeboundariesLowest ==
    /\ info = NoValue
    /\ info' = get_freeboundaries(mesh, LowestOutline(mesh))
    /\ UNCHANGED <<mesh, fb, sep, lengths, areas, voltVars, arrowVars, loadVars, anatVars,
                   drawVars, widgetVars, registrationVars>>

\* plotter = draw_free_boundaries(fb), every other parameter at its default
DrawFreeBoundaries ==
    /\ fb # NoValue
    /\ plotter = NoValue
    /\ plotter' = draw_free_boundaries(fb, mesh, default_colours, default_width, None)
    /\ UNCHANGED <<boundaryVars, voltVars, arrowVars, loadVars, anatVars,
                   widgetVars, registrationVars>>

NextDraw ==
    \/ GetFreeboundariesLowest
    \/ NewFreeBoundary
    \/ SeparateBoundaries
    \/ DrawFreeBoundaries

SpecDraw == InitDraw /\ [][NextDraw]_vars

-----------------------------------------------------------------------------
(* get_voltage_electroanatomic.  The Case holds electric["egm"], an array  *)
(* of NumSamples rows and NumPoints columns, the electrode locations and   *)
(* the mesh nodes.  A float that may be not-a-number is Float(x) or NaN.   *)

NaN == [nan |-> TRUE]
Float(x) == [num |-> x]

\* np.isnan
IsNaN(x) == x = NaN

\* a.T of a 2-D array with n_cols columns: a view, so a write to a.T[c][r] is a
\* write to a[r][c]
Transpose(a, n_cols) == [c \in 1..n_cols |-> [r \in 1..Len(a) |-> a[r][c]]]

distance_thresh == 10
rbf_constant_value == 1

\* the vertices of the case's mesh and the electrode positions of its mapping
\* points: on a line, 8 units apart; the last vertex is beyond the threshold of
\* every electrode
CaseNodes == [i \in 1..(NumPoints + 2) |-> <<8 * (i - 1), 0, 0>>]
CaseLocations == [p \in 1..NumPoints |-> <<8 * (p - 1), 0, 0>>]

\* the stored electrogram of mapping point p: its baseline, raised by level on
\* the odd samples; level -1 is a recording whose first sample is not-a-number
Electrogram(p, level) ==
    [s \in 1..NumSamples |->
        IF level = -1
        THEN IF s = 1 THEN NaN ELSE Float(p % 2)
        ELSE Float((p % 2) + IF s % 2 = 1 THEN level ELSE 0)]

Electrograms ==
    {[s \in 1..NumSamples |-> [p \in 1..NumPoints |-> Electrogram(p, level[p])[s]]] :
     level \in [1..NumPoints -> -1..MaxVolt]}

Cases ==
    {[kind |-> "Case",
      nodes |-> CaseNodes,
      egm |-> e,
      egmX |-> CaseLocations,
      within_woi |-> w] : e \in Electrograms, w \in [1..NumPoints -> BOOLEAN]}

\* case_routines.get_electrogram_coordinates(mesh_case, "type", "bip"): a new
\* array of the electrode positions, one row per mapping point
get_electrogram_coordinates(c) == c.egmX

\* case_routines.get_mapping_points_within_woi(mesh_case): one flag per mapping
\* point, TRUE inside the window of interest
get_mapping_points_within_woi(c) == c.within_woi

\* the masking left out: every row is kept as it is
MaskRows_nothing(a, i_vp) == a

\* a[~mask] = np.nan, the mask repeated along every row
MaskRows(a, i_vp) ==
    [p \in 1..Len(a) |-> IF i_vp[p] THEN a[p] ELSE [s \in 1..Len(a[p]) |-> NaN]]

\* np.amax / np.amin along axis 1: not-a-number when the row holds one
AMax(row) ==
    IF \E s \in 1..Len(row) : IsNaN(row[s]) THEN NaN
    ELSE Float(CHOOSE x \in {row[s].num : s \in 1..Len(row)} :
                   \A y \in {row[s].num : s \in 1..Len(row)} : y <= x)

AMin(row) ==
    IF \E s \in 1..Len(row) : IsNaN(row[s]) THEN NaN
    ELSE Float(Min({row[s].num : s \in 1..Len(row)}))

\* np.subtract
Subtract(a, b) == IF IsNaN(a) \/ IsNaN(b) THEN NaN ELSE Float(a.num - b.num)

\* case_routines.OpenEPDataInterpolator(method, distanceThreshold, rbfConstant)
OpenEPDataInterpolator(method, distanceThreshold, rbfConstant) ==
    [kind |-> "OpenEPDataInterpolator",
     method |-> method,
     distanceThreshold |-> distanceThreshold,
     rbfConstant |-> rbfConstant]

InsufficientSamplesError == [kind |-> "error", type |-> "InsufficientSamplesError"]

\* every method asking for what the radial-basis method asks for
MinSamples_always_four(method) == 4

\* the fewest valid samples a method can be fitted to
MinSamples(method) == IF method = "rbf" THEN 4 ELSE 1

\* the value of a radial-basis fit away from every sample: some number
Fitted == [fit |-> TRUE]

\* interp.interpolate(x0, d0, x1): raises when the samples are too few for the
\* method; else one value per row of x1: not-a-number where every sample is
\* farther than the threshold, the sample's value at a sample's position, the
\* nearest sample's value ("nearest") or the value of the fit ("rbf") elsewhere
interpolate(self, x0, d0, x1) ==
    IF Len(x0) < MinSamples(self.method) THEN InsufficientSamplesError
    ELSE Some([v \in 1..Len(x1) |->
        LET d2(i) == Dot3(Sub3(x0[i], x1[v]), Sub3(x0[i], x1[v]))
            near == {i \in 1..Len(x0) :
                        /\ ~IsNaN(x0[i])
                        /\ d2(i) <= self.distanceThreshold * self.distanceThreshold}
            nearest == CHOOSE i \in near :
                           \A j \in near : d2(i) < d2(j) \/ (d2(i) = d2(j) /\ i <= j)
        IN  IF near = {} THEN NaN
            ELSE IF self.method = "nearest" \/ d2(nearest) = 0 THEN d0[nearest]
            ELSE Fitted])

\* the electrode positions taken for the mesh nodes
case_nodes_from_locations(c) == c.egmX

\* pts = mesh_case.nodes: the positions the field is computed at
case_nodes(c) == c.nodes

\* the body of get_voltage_electroanatomic: the interpolator it makes, the
\* arguments it hands to interpolate(), what that returns or raises, and the
\* array electric["egm"] holds afterwards (i_egm is a view of it)
get_voltage_electroanatomic(c) ==
    LET locations == get_electrogram_coordinates(c)
        i_egm == Transpose(c.egm, NumPoints)
        i_vp == get_mapping_points_within_woi(c)
        i_egm_masked == MaskRows(i_egm, i_vp)
        locations_masked == [p \in 1..Len(locations) |->
                                IF i_vp[p] THEN locations[p] ELSE NaN]
        max_volt == [p \in 1..Len(i_egm_masked) |-> AMax(i_egm_masked[p])]
        min_volt == [p \in 1..Len(i_egm_masked) |-> AMin(i_egm_masked[p])]
        amplitude_volt == [p \in 1..Len(max_volt) |-> Subtract(max_volt[p], min_volt[p])]
        keep == [p \in 1..Len(amplitude_volt) |-> ~IsNaN(amplitude_volt[p])]
        temp_data == Masked(amplitude_volt, keep)
        temp_coords == Masked(locations_masked, keep)
        self == OpenEPDataInterpolator("rbf", distance_thresh, rbf_constant_value)
    IN  [egm |-> Transpose(i_egm_masked, NumSamples),
         interp |-> self,
         x0 |-> temp_coords,
         d0 |-> temp_data,
         x1 |-> case_nodes(c),
         vertex_voltage_data |-> interpolate(self, temp_coords, temp_data, case_nodes(c))]

InitVolt ==
    /\ mesh = ClosedCube
    /\ info = NoValue
    /\ fb = NoValue
    /\ sep = NoValue
    /\ lengths = NoValue
    /\ areas = NoValue
    /\ mesh_case \in Cases
    /\ volt = NoValue
    /\ interp = NoValue
    /\ interp_call = NoValue
    /\ ArrowsIdle
    /\ LoadIdle
    /\ AnatIdle
    /\ DrawIdle
    /\ WidgetIdle
    /\ RegistrationIdle

\* volt = get_voltage_electroanatomic(mesh_case), or the exception it raised
GetVoltageElectroanatomic ==
    /\ volt = NoValue
    /\ LET r == get_voltage_electroanatomic(mesh_case)
       IN  /\ mesh_case' = [mesh_case EXCEPT !.egm = r.egm]
           /\ interp' = r.interp
           /\ interp_call' = [x0 |-> r.x0, d0 |-> r.d0, x1 |-> r.x1]
           /\ volt' = r.vertex_voltage_data
    /\ UNCHANGED <<boundaryVars, arrowVars, loadVars, anatVars,
                   drawVars, widgetVars, registrationVars>>

NextVolt == GetVoltageElectroanatomic

SpecVolt == InitVolt /\ [][NextVolt]_vars

-----------------------------------------------------------------------------
(* The interpolator called on its own, with any method and threshold.     *)
(* Positions are in half units: the sample (1,0,0) is <<2,0,0>> and a      *)
(* threshold of 0.5 is 1.                                                  *)

Methods == {"rbf", "nearest"}

\* the i-th sample: at the i-th corner of the unit cube, with value i
SamplePosition(i) == Mul3(2, CubePoints[i])
SampleValue(i) == Float(i)

\* the positions a value is asked at: two samples' positions, the midpoint of
\* two samples and a far point
Targets == {<<0, 0, 0>>, <<2, 0, 0>>, <<1, 0, 0>>, <<10, 10, 10>>}

InterpolatorCalls ==
    {[x0 |-> [i \in 1..n |-> SamplePosition(i)],
      d0 |-> [i \in 1..n |-> SampleValue(i)],
      x1 |-> x1] : n \in 0..MaxFit, x1 \in [1..2 -> Targets]}

InitInterp ==
    /\ mesh = ClosedCube
    /\ info = NoValue
    /\ fb = NoValue
    /\ sep = NoValue
    /\ lengths = NoValue
    /\ areas = NoValue
    /\ mesh_case = NoCase
    /\ volt = NoValue
    /\ interp \in {OpenEPDataInterpolator(method, threshold, rbf_constant_value) :
                       method \in Methods, threshold \in 1..MaxThreshold}
    /\ interp_call \in InterpolatorCalls
    /\ ArrowsIdle
    /\ LoadIdle
    /\ AnatIdle
    /\ DrawIdle
    /\ WidgetIdle
    /\ RegistrationIdle

\* volt = interp.interpolate(x0, d0, x1), or the exception it raised
Interpolate ==
    /\ volt = NoValue
    /\ volt' = interpolate(interp, interp_call.x0, interp_call.d0, interp_call.x1)
    /\ UNCHANGED <<boundaryVars, mesh_case, interp, interp_call,
                   arrowVars, loadVars, anatVars,
                   drawVars, widgetVars, registrationVars>>

NextInterp == Interpolate

SpecInterp == InitInterp /\ [][NextInterp]_vars

-----------------------------------------------------------------------------
(* The Arrows container (openep/data_structures/arrows.py).  An Arrows     *)
(* object is its __dict__: a function from the four arrow names to None or *)
(* an array.  An array is [id, data]: two slots hold the same ndarray      *)
(* object when their ids are equal, and a write into an ndarray is seen    *)
(* through every slot that holds it.  A row of an array is one number.     *)

\* the fields of the class, in declaration order (the order of __dict__)
ArrowNames == <<"fibres", "divergence", "linear_connections", "linear_connection_regions">>

ndarray(id, data) == [kind |-> "ndarray", id |-> id, data |-> data]

\* Arrows(): every arrow is None
NewArrows == [arrow \in Range(ArrowNames) |-> None]

\* the ids of the ndarrays an Arrows object holds
ArrayIds(self) ==
    IF self = NoValue THEN {}
    ELSE {self[arrow].id : arrow \in {a \in DOMAIN self : self[a].kind = "ndarray"}}

\* an id no ndarray of the two objects has
FreshId(used) == CHOOSE id \in 1..(Cardinality(used) + 1) : id \notin used

\* __getitem__: the stored value, ValueError for an unknown name
getitem(self, arrow) ==
    IF arrow \in DOMAIN self THEN self[arrow] ELSE ValueError

\* a faulty __setitem__: a name that is no arrow is passed over in silence
setitem_silent(self, arrow, value) ==
    IF arrow \notin DOMAIN self
    THEN [self |-> self, raised |-> None]
    ELSE [self |-> [self EXCEPT ![arrow] = value], raised |-> None]

\* __setitem__: the object afterwards and what was raised
setitem(self, arrow, value) ==
    IF arrow \notin DOMAIN self
    THEN [self |-> self, raised |-> ValueError]
    ELSE [self |-> [self EXCEPT ![arrow] = value], raised |-> None]

\* the same ndarray object instead of a new one
np_array_same(a, id) == a

\* np.array(a): a new ndarray with the contents of a
np_array(a, id) == ndarray(id, a.data)

\* the loop of copy() over the names still to visit
RECURSIVE CopyLoop(_, _, _, _)
CopyLoop(self, names, result, used) ==
    IF names = <<>> THEN result
    ELSE LET arrow == Head(names)
         IN  IF getitem(self, arrow).kind = "None"
             THEN CopyLoop(self, Tail(names), result, used)
             ELSE LET id == FreshId(used)
                      new == np_array(getitem(self, arrow), id)
                  IN  CopyLoop(self, Tail(names), setitem(result, arrow, new).self,
                               used \cup {new.id})

\* copy(): iterating self yields the keys of __dict__
copy(self, used) == CopyLoop(self, ArrowNames, NewArrows, used)

\* a[i] = x written into the ndarray with this id, seen through every slot of
\* the object that holds it
WriteIn(self, id, i, x) ==
    IF self = NoValue THEN self
    ELSE [arrow \in DOMAIN self |->
            IF self[arrow].kind = "ndarray" /\ self[arrow].id = id
            THEN [self[arrow] EXCEPT !.data[i] = x]
            ELSE self[arrow]]

\* the ids renumbered in the order the ndarrays are met in arrows and then in
\* arrows_copy (an id only tells whether two slots hold the same object)
Renumbered(first, second) ==
    LET slots == [k \in 1..(2 * Len(ArrowNames)) |->
                     IF k <= Len(ArrowNames)
                     THEN first[ArrowNames[k]]
                     ELSE IF second = NoValue THEN None
                          ELSE second[ArrowNames[k - Len(ArrowNames)]]]
        met(k) == {slots[j].id : j \in {i \in 1..(k - 1) : slots[i].kind = "ndarray"}}
        FirstSlot(id) == Min({k \in DOMAIN slots :
                                 slots[k].kind = "ndarray" /\ slots[k].id = id})
        NewId(id) == Cardinality(met(FirstSlot(id))) + 1
        Renamed(self) ==
            IF self = NoValue THEN self
            ELSE [arrow \in DOMAIN self |->
                    IF self[arrow].kind = "ndarray"
                    THEN [self[arrow] EXCEPT !.id = NewId(self[arrow].id)]
                    ELSE self[arrow]]
    IN  <<Renamed(first), Renamed(second)>>

\* an array of n rows, every row holding x
Filled(n, x) == [i \in 1..n |-> x]

\* the Arrows objects at the start: any of the four arrows set, each to its own
\* array of one row per cell
InitialArrows ==
    {Renumbered([arrow \in Range(ArrowNames) |->
                    IF arrow \in set THEN ndarray(0, Filled(NumCells, 0)) ELSE None],
                NoValue)[1] : set \in SUBSET Range(ArrowNames)}

InitArrows ==
    /\ mesh = ClosedCube
    /\ info = NoValue
    /\ fb = NoValue
    /\ sep = NoValue
    /\ lengths = NoValue
    /\ areas = NoValue
    /\ VoltIdle
    /\ arrows \in InitialArrows
    /\ arrows_copy = NoValue
    /\ last_call = NoValue
    /\ raised = NoValue
    /\ LoadIdle
    /\ AnatIdle
    /\ DrawIdle
    /\ WidgetIdle
    /\ RegistrationIdle

\* the object a call is made on
Target(target) == IF target = "arrows" THEN arrows ELSE arrows_copy

\* target[arrow] = value, value a new array of n rows
SetItem(target, arrow, n) ==
    /\ Target(target) # NoValue
    /\ LET value == ndarray(FreshId(ArrayIds(arrows) \cup ArrayIds(arrows_copy)),
                            Filled(n, 1))
           r == setitem(Target(target), arrow, value)
           after == IF target = "arrows"
                    THEN Renumbered(r.self, arrows_copy)
                    ELSE Renumbered(arrows, r.self)
       IN  /\ arrows' = after[1]
           /\ arrows_copy' = after[2]
           /\ raised' = r.raised
    /\ last_call' = [op |-> "setitem", target |-> target, arrow |-> arrow, length |-> n]
    /\ UNCHANGED <<boundaryVars, voltVars, loadVars, anatVars,
                   drawVars, widgetVars, registrationVars>>

\* target[arrow][0] = 2: a write into the stored ndarray
WriteItem(target, arrow) ==
    /\ Target(target) # NoValue
    /\ getitem(Target(target), arrow).kind = "ndarray"
    /\ LET a == getitem(Target(target), arrow)
       IN  /\ Len(a.data) >= 1
           /\ arrows' = WriteIn(arrows, a.id, 1, 2)
           /\ arrows_copy' = WriteIn(arrows_copy, a.id, 1, 2)
    /\ raised' = None
    /\ last_call' = [op |-> "write", target |-> target, arrow |-> arrow, length |-> 0]
    /\ UNCHANGED <<boundaryVars, voltVars, loadVars, anatVars,
                   drawVars, widgetVars, registrationVars>>

\* arrows_copy = arrows.copy()
Copy ==
    /\ arrows_copy = NoValue
    /\ LET after == Renumbered(arrows, copy(arrows, ArrayIds(arrows)))
       IN  /\ arrows' = after[1]
           /\ arrows_copy' = after[2]
    /\ raised' = None
    /\ last_call' = [op |-> "copy", target |-> "arrows", arrow |-> "", length |-> 0]
    /\ UNCHANGED <<boundaryVars, voltVars, loadVars, anatVars,
                   drawVars, widgetVars, registrationVars>>

\* the names item assignment is tried with: an arrow and a name that is none
AssignedNames == {"fibres", "colour"}

\* the arrows whose stored array is written into
WrittenNames == {"fibres", "linear_connections"}

NextArrows ==
    \/ \E target \in {"arrows", "arrows_copy"}, arrow \in AssignedNames,
          n \in NumCells..(NumCells + 1) : SetItem(target, arrow, n)
    \/ \E target \in {"arrows", "arrows_copy"},
          arrow \in WrittenNames : WriteItem(target, arrow)
    \/ Copy

SpecArrows == InitArrows /\ [][NextArrows]_vars

\* target[arrow]: the lookup alone, its value dropped
GetItem(target, arrow) ==
    /\ Target(target) # NoValue
    /\ raised' = IF getitem(Target(target), arrow) = ValueError THEN ValueError ELSE None
    /\ last_call' = [op |-> "getitem", target |-> target, arrow |-> arrow, length |-> 0]
    /\ UNCHANGED <<arrows, arrows_copy, boundaryVars, voltVars, loadVars, anatVars,
                   drawVars, widgetVars, registrationVars>>

\* the names item access is tried with: every arrow and two names that are none
AccessedNames == Range(ArrowNames) \cup {"colour", "longitudinal_fibres"}

\* item assignments and lookups on one Arrows object
NextNames ==
    \/ \E arrow \in AccessedNames, n \in NumCells..(NumCells + 1) :
          SetItem("arrows", arrow, n)
    \/ \E arrow \in AccessedNames : GetItem("arrows", arrow)

SpecNames == InitArrows /\ [][NextNames]_vars

-----------------------------------------------------------------------------
(* The loaders (openep/io/readers.py).  A file is what its reader yields:  *)
(* the lines of an openCARP element file, the pyvista mesh of a VTK file,  *)
(* the 'surface' struct of a MATLAB file.  A token that the loader converts *)
(* with int() is the integer it denotes.                                   *)

\* the triangles a file may describe: the first index of a triangle is any of
\* -1..NumFilePoints, so below, inside and above the range of the points
FileTriangles ==
    UNION {[1..n -> {<<a, 1, 2>> : a \in -1..NumFilePoints}] : n \in 0..MaxTriangles}

FilePoints == [i \in 1..NumFilePoints |-> <<i - 1, 0, 0>>]

\* an openCARP element file: the count, then a 'Tr' line per triangle with its
\* region, then a linear connection
ElemLines(triangles) ==
    << [type |-> "count", args |-> <<Len(triangles)>>] >>
    \o [i \in 1..Len(triangles) |-> [type |-> "Tr", args |-> triangles[i] \o <<i>>]]
    \o << [type |-> "Ln", args |-> <<0, 1, 0>>] >>

\* pyvista's mesh.faces: every cell as its number of points and its points
VtkFaces(triangles) == Concat([i \in 1..Len(triangles) |-> <<3>> \o triangles[i]])

\* TriRep.Triangulation in the MATLAB file: indices from 1
MatTriangulation(triangles) ==
    [i \in 1..Len(triangles) |-> [k \in 1..3 |-> triangles[i][k] + 1]]

\* the element types of the lines of an element file: triangle, linear
\* connection, tetrahedron
ElemTypes == {"Tr", "Ln", "Tt"}

\* the orders in which lines of these types follow one another in a file
Layouts ==
    {layout \in UNION {[1..n -> ElemTypes] : n \in 0..MaxLines} :
        Cardinality({i \in DOMAIN layout : layout[i] = "Tr"}) <= MaxTriangles}

\* an element file of this layout: the count, then the lines; the k-th 'Tr'
\* line holds the k-th triangle, and every line's region is its place in the file
MixedElemLines(layout, triangles) ==
    << [type |-> "count", args |-> <<Len(layout)>>] >>
    \o [i \in 1..Len(layout) |->
           IF layout[i] = "Tr"
           THEN [type |-> "Tr",
                 args |-> triangles[Cardinality({j \in 1..i : layout[j] = "Tr"})] \o <<i>>]
           ELSE IF layout[i] = "Ln"
           THEN [type |-> "Ln", args |-> <<0, 1, i>>]
           ELSE [type |-> "Tt", args |-> <<0, 1, 2, 0, i>>]]

Files ==
    {[kind |-> "opencarp", points |-> FilePoints, lines |-> ElemLines(t)] : t \in FileTriangles}
    \cup {[kind |-> "opencarp", points |-> FilePoints, lines |-> MixedElemLines(lt[1], lt[2])] :
             lt \in {x \in Layouts \X FileTriangles :
                        Len(x[2]) = Cardinality({i \in DOMAIN x[1] : x[1][i] = "Tr"})}}
    \cup {[kind |-> "vtk", points |-> FilePoints, faces |-> VtkFaces(t), n_cells |-> Len(t)] :
             t \in FileTriangles}
    \cup {[kind |-> "mat", points |-> FilePoints, Triangulation |-> MatTriangulation(t)] :
             t \in FileTriangles}

ShapeMismatchError == [kind |-> "error", type |-> "ShapeMismatchError"]

\* Fields(cell_region=...)
Fields(cell_region) == [cell_region |-> cell_region]

\* the constructor without its validation
Case_unvalidated(name, points, indices, fields, case_arrows) ==
    [kind |-> "Case", name |-> name, points |-> points, indices |-> indices,
     fields |-> fields, arrows |-> case_arrows]

\* Case(name, points, indices, fields, electric, ablation, notes, arrows):
\* validates on construction that every face index is in [0, N) and that a
\* per-cell field has one entry per face
Case(name, points, indices, fields, case_arrows) ==
    IF \E i \in 1..Len(indices) : \E k \in 1..3 :
           indices[i][k] < 0 \/ indices[i][k] >= Len(points)
    THEN ShapeMismatchError
    ELSE IF fields.cell_region.kind = "value" /\ Len(fields.cell_region.v) # Len(indices)
    THEN ShapeMismatchError
    ELSE Case_unvalidated(name, points, indices, fields, case_arrows)

\* the rows of the lines with this element type
RECURSIVE ElemRows(_, _, _, _)
ElemRows(lines, type, first, last) ==
    IF lines = <<>> THEN <<>>
    ELSE (IF Head(lines).type = type
          THEN <<SubSeq(Head(lines).args, first, last)>>
          ELSE <<>>) \o ElemRows(Tail(lines), type, first, last)

\* the Arrows the loader makes
LoadedArrows(fibres, linear_connections) ==
    [NewArrows EXCEPT !["fibres"] = fibres, !["linear_connections"] = linear_connections]

\* a faulty loop: a region entry is kept for the 'Ln' lines as well
load_opencarp_regions_of_connections(f) ==
    LET points_data == f.points
        indices_data == ElemRows(f.lines, "Tr", 1, 3)
        region_lines == SelectSeq(f.lines, LAMBDA l : l.type \in {"Tr", "Ln"})
        cell_region == [i \in 1..Len(region_lines) |->
                           region_lines[i].args[Len(region_lines[i].args)]]
        linear_connection_data == ElemRows(f.lines, "Ln", 1, 3)
        loaded_arrows == LoadedArrows(None, ndarray(1, linear_connection_data))
    IN  Case("opencarp", points_data, indices_data, Fields(Some(cell_region)), loaded_arrows)

load_opencarp(f) ==
    LET points_data == f.points
        indices_data == ElemRows(f.lines, "Tr", 1, 3)
        cell_region_rows == ElemRows(f.lines, "Tr", 4, 4)
        cell_region == [i \in 1..Len(cell_region_rows) |-> cell_region_rows[i][1]]
        linear_connection_data == ElemRows(f.lines, "Ln", 1, 3)
        loaded_arrows == LoadedArrows(None, ndarray(1, linear_connection_data))
    IN  Case("opencarp", points_data, indices_data, Fields(Some(cell_region)), loaded_arrows)

\* the case assembled without the constructor
load_vtk_unvalidated(f) ==
    Case_unvalidated("vtk", f.points,
                     [i \in 1..f.n_cells |-> SubSeq(f.faces, 4 * (i - 1) + 2, 4 * i)],
                     Fields(None), None)

\* np.array(mesh.faces).reshape(mesh.n_cells, 4)[:, 1:]
load_vtk(f) ==
    LET reshaped == [i \in 1..f.n_cells |-> SubSeq(f.faces, 4 * (i - 1) + 1, 4 * i)]
        indices == [i \in 1..Len(reshaped) |-> Tail(reshaped[i])]
    IN  Case("vtk", f.points, indices, Fields(None), None)

\* _load_mat: data['surface']['triRep']['Triangulation'] -= 1
load_mat(f) ==
    [f EXCEPT !.Triangulation =
        [i \in 1..Len(f.Triangulation) |-> [k \in 1..3 |-> f.Triangulation[i][k] - 1]]]

\* extract_surface_data(data['surface']): the points, the indices and the fields
extract_surface_data(surface) ==
    [points |-> surface.points, indices |-> surface.Triangulation, fields |-> Fields(None)]

load_openep_mat(f) ==
    LET data == load_mat(f)
        surface == extract_surface_data(data)
    IN  Case("mat", surface.points, surface.indices, surface.fields, None)

InitLoad ==
    /\ mesh = ClosedCube
    /\ info = NoValue
    /\ fb = NoValue
    /\ sep = NoValue
    /\ lengths = NoValue
    /\ areas = NoValue
    /\ VoltIdle
    /\ ArrowsIdle
    /\ file \in Files
    /\ loaded = NoValue
    /\ AnatIdle
    /\ DrawIdle
    /\ WidgetIdle
    /\ RegistrationIdle

LoadOpencarp ==
    /\ loaded = NoValue
    /\ file.kind = "opencarp"
    /\ loaded' = load_opencarp(file)
    /\ UNCHANGED <<boundaryVars, voltVars, arrowVars, file, anatVars,
                   drawVars, widgetVars, registrationVars>>

LoadVtk ==
    /\ loaded = NoValue
    /\ file.kind = "vtk"
    /\ loaded' = load_vtk(file)
    /\ UNCHANGED <<boundaryVars, voltVars, arrowVars, file, anatVars,
                   drawVars, widgetVars, registrationVars>>

LoadOpenepMat ==
    /\ loaded = NoValue
    /\ file.kind = "mat"
    /\ loaded' = load_openep_mat(file)
    /\ UNCHANGED <<boundaryVars, voltVars, arrowVars, file, anatVars,
                   drawVars, widgetVars, registrationVars>>

NextLoad == LoadOpencarp \/ LoadVtk \/ LoadOpenepMat

SpecLoad == InitLoad /\ [][NextLoad]_vars

-----------------------------------------------------------------------------
(* class AnnotationWidget (openep/view/annotations_ui.py).  A dictionary is *)
(* a function from its keys; a Line2D artist is the record of its colour,  *)
(* its data and the attributes plot_signals hangs on it.  Times are in     *)
(* half milliseconds, y-data in 1/Scale.                                   *)

MaxGain == 1

AttributeError == [kind |-> "error", type |-> "AttributeError"]
KeyError == [kind |-> "error", type |-> "KeyError"]

\* an attribute that no statement has assigned yet
Absent == [kind |-> "absent"]

\* {}
EmptyDict == [label \in {} |-> NoValue]

\* what canvas.copy_from_bbox(self.figure.bbox) returns
Captured == Some("figure.bbox")

active_colour == "xkcd:azure"
inactive_colour == "xkcd:steel blue"

\* the colours matplotlib gives to the lines of an axes in turn
CycleColours == <<"C0", "C1", "C2">>

\* e in 1/Scale
EScaled == 2718

\* np.exp(gain) in 1/Scale, gain an integer
RECURSIVE Exp(_)
Exp(gain) ==
    IF gain = 0 THEN Scale
    ELSE IF gain > 0 THEN (Exp(gain - 1) * EScaled) \div Scale
    ELSE (Exp(gain + 1) * Scale) \div EScaled

\* a Line2D
Line2D(colour, xdata, ydata) == [colour |-> colour, xdata |-> xdata, ydata |-> ydata]

\* the annotations _initialise_annotations adds: the window of interest from 0
\* to 1 ms, the reference and the local annotation at 0.5 ms and 6
InitialAnnotations ==
    [label \in {"woi_start", "woi_stop", "reference_annotation", "reference_annotation_line",
                "local_annotation", "local_annotation_line"} |->
        IF label = "woi_start" THEN Line2D("grey", <<0, 0>>, <<0, Scale>>)
        ELSE IF label = "woi_stop" THEN Line2D("grey", <<2, 2>>, <<0, Scale>>)
        ELSE IF label = "reference_annotation" THEN Line2D("red", <<1>>, <<6 * Scale>>)
        ELSE IF label = "reference_annotation_line" THEN Line2D("red", <<1, 1>>, <<0, Scale>>)
        ELSE IF label = "local_annotation" THEN Line2D("green", <<1>>, <<6 * Scale>>)
        ELSE Line2D("green", <<1, 1>>, <<0, Scale>>)]

\* _on_draw: the background it stores
on_draw == Captured

\* blit_artists: the background afterwards and what was raised; reading
\* self.background raises AttributeError while nothing has assigned it
blit_artists(bg) ==
    IF bg = Absent THEN [background |-> bg, raised |-> AttributeError]
    ELSE IF bg = None THEN [background |-> on_draw, raised |-> None]
    ELSE [background |-> bg, raised |-> None]

\* update_active_artist: every signal artist recoloured, then blit_artists
update_active_artist(artists, active, bg) ==
    LET blit == blit_artists(bg)
    IN  [signal_artists |->
            [artist_label \in DOMAIN artists |->
                [artists[artist_label] EXCEPT !.colour =
                    IF Some(artist_label) = active THEN active_colour ELSE inactive_colour]],
         background |-> blit.background,
         raised |-> blit.raised,
         redrawn |-> TRUE]

\* a faulty _on_pick: the active signal is not passed over
on_pick_always(artists, active, label, bg) ==
    IF label \notin DOMAIN artists
    THEN [signal_artists |-> artists, active_signal_label |-> active,
          background |-> bg, raised |-> None, redrawn |-> FALSE]
    ELSE LET updated == update_active_artist(artists, Some(label), bg)
         IN  [signal_artists |-> updated.signal_artists,
              active_signal_label |-> Some(label),
              background |-> updated.background,
              raised |-> updated.raised,
              redrawn |-> updated.redrawn]

\* _on_pick, label the label of event.artist
on_pick(artists, active, label, bg) ==
    IF active = Some(label) \/ label \notin DOMAIN artists
    THEN [signal_artists |-> artists, active_signal_label |-> active,
          background |-> bg, raised |-> None, redrawn |-> FALSE]
    ELSE LET updated == update_active_artist(artists, Some(label), bg)
         IN  [signal_artists |-> updated.signal_artists,
              active_signal_label |-> Some(label),
              background |-> updated.background,
              raised |-> updated.raised,
              redrawn |-> updated.redrawn]

\* one line of plot_signals: the k-th signal drawn above the ones before it
SignalLine(times, signal, k, gain) ==
    LET separation == (2 + (k - 1) * 4) * Scale
    IN  [colour |-> CycleColours[k],
         xdata |-> times,
         ydata |-> [i \in 1..Len(signal) |-> separation + Exp(gain) * signal[i]],
         original_ydata |-> signal,
         ystart |-> separation]

\* plot_signals: zip stops at the shortest of signals, labels and gains; a
\* label met again replaces the line stored for it; the artists stored under
\* other labels stay
plot_signals(artists, times, signals, labels, gains) ==
    LET n == Min({Len(signals), Len(labels), Len(gains)})
        Last(label) == CHOOSE k \in 1..n :
                           labels[k] = label /\ \A j \in (k + 1)..n : labels[j] # label
        plotted == [label \in DOMAIN artists \cup {labels[k] : k \in 1..n} |->
                       IF \E k \in 1..n : labels[k] = label
                       THEN SignalLine(times, signals[Last(label)], Last(label),
                                       gains[Last(label)])
                       ELSE artists[label]]
    IN  [signal_artists |-> [plotted EXCEPT ![labels[1]].colour = active_colour],
         active_signal_label |-> Some(labels[1])]

\* np.searchsorted(a, v): the (0-based) place of v in the sorted a
searchsorted(a, v) == Cardinality({i \in DOMAIN a : a[i] < v})

\* _update_annotation_ydata: the annotation afterwards and what was raised;
\* voltages[time_index] raises IndexError for an index equal to its length
update_annotation_ydata(signal, annotation) ==
    LET timeseries == signal.xdata
        voltages == signal.ydata
        activation_time == annotation.xdata
        time_index == [i \in DOMAIN activation_time |->
                          searchsorted(timeseries, activation_time[i])]
    IN  IF \E i \in DOMAIN time_index : time_index[i] >= Len(voltages)
        THEN [annotation |-> annotation, raised |-> IndexError]
        ELSE [annotation |-> [annotation EXCEPT !.ydata =
                                 [i \in DOMAIN time_index |-> voltages[time_index[i] + 1]]],
              raised |-> None]

\* a faulty update_gain: the gain multiplies the data on display
update_gain_displayed(artists, annotations, active, gain) ==
    IF active = None
    THEN [signal_artists |-> artists, annotation_artists |-> annotations, raised |-> KeyError]
    ELSE [signal_artists |->
             [artists EXCEPT ![active.v].ydata =
                 [i \in DOMAIN @ |->
                     artists[active.v].ystart
                     + ((@[i] - artists[active.v].ystart) * Exp(gain)) \div Scale]],
          annotation_artists |-> annotations,
          raised |-> None]

\* update_gain: the artists afterwards and what was raised
update_gain(artists, annotations, active, gain) ==
    IF active = None
    THEN [signal_artists |-> artists, annotation_artists |-> annotations, raised |-> KeyError]
    ELSE
    LET label == active.v
        artist == artists[label]
        original_ydata == artist.original_ydata
        gained == [artist EXCEPT !.ydata =
                      [i \in DOMAIN original_ydata |->
                          artist.ystart + original_ydata[i] * Exp(gain)]]
        name == IF label = "Ref" THEN "reference_annotation"
                ELSE IF label = "Bipolar" THEN "local_annotation"
                ELSE ""
        moved == IF name = "" THEN [annotation |-> NoValue, raised |-> None]
                 ELSE update_annotation_ydata(gained, annotations[name])
    IN  [signal_artists |-> [artists EXCEPT ![label] = gained],
         annotation_artists |->
            IF name = "" THEN annotations
            ELSE [annotations EXCEPT ![name] = moved.annotation],
         raised |-> moved.raised]

-----------------------------------------------------------------------------
(* The widget as a state machine: its methods and the handlers of the      *)
(* canvas' draw and pick events                                            *)

\* the labels signals are plotted under
SignalLabels == {"Ref", "Bipolar", "ECG"}

\* the labels of the artists a pick event can come with
PickedLabels == SignalLabels \cup {"woi_start"}

\* the time axes of the signals plotted: from 0 ms on, and up to 0 ms
TimeAxes == { <<0, 2, 4>>, <<0 - 4, 0 - 2, 0>> }

\* the signals handed to plot_signals with n labels
Signals(n) == [k \in 1..n |-> <<k, 0 - k, 2 * k>>]

Gains == (0 - MaxGain)..MaxGain

\* AnnotationWidget(title): no statement of __init__ assigns self.background
InitWidget ==
    /\ mesh = ClosedCube
    /\ info = NoValue
    /\ fb = NoValue
    /\ sep = NoValue
    /\ lengths = NoValue
    /\ areas = NoValue
    /\ VoltIdle
    /\ ArrowsIdle
    /\ LoadIdle
    /\ AnatIdle
    /\ DrawIdle
    /\ signal_artists = EmptyDict
    /\ active_signal_label = None
    /\ annotation_artists = InitialAnnotations
    /\ background = Absent
    /\ widget_call = NoValue
    /\ RegistrationIdle

Called(op, arg, exception, redrawn) ==
    [op |-> op, arg |-> arg, raised |-> exception, redrawn |-> redrawn]

\* the canvas emits a draw event, handled by _on_draw
DrawEvent ==
    /\ background' = on_draw
    /\ widget_call' = Called("_on_draw", "", None, FALSE)
    /\ UNCHANGED <<signal_artists, active_signal_label, annotation_artists,
                   boundaryVars, voltVars, arrowVars, loadVars, anatVars, drawVars,
                   registrationVars>>

\* the canvas emits a pick event for an artist with this label, handled by _on_pick
Pick(label) ==
    /\ LET r == on_pick(signal_artists, active_signal_label, label, background)
       IN  /\ signal_artists' = r.signal_artists
           /\ active_signal_label' = r.active_signal_label
           /\ background' = r.background
           /\ widget_call' = Called("_on_pick", label, r.raised, r.redrawn)
    /\ UNCHANGED <<annotation_artists,
                   boundaryVars, voltVars, arrowVars, loadVars, anatVars, drawVars,
                   registrationVars>>

UpdateActiveArtist ==
    /\ LET r == update_active_artist(signal_artists, active_signal_label, background)
       IN  /\ signal_artists' = r.signal_artists
           /\ background' = r.background
           /\ widget_call' = Called("update_active_artist", "", r.raised, r.redrawn)
    /\ UNCHANGED <<active_signal_label, annotation_artists,
                   boundaryVars, voltVars, arrowVars, loadVars, anatVars, drawVars,
                   registrationVars>>

\* activate_figure: canvas.draw() emits the draw event
ActivateFigure ==
    /\ background' = on_draw
    /\ widget_call' = Called("activate_figure", "", None, TRUE)
    /\ UNCHANGED <<signal_artists, active_signal_label, annotation_artists,
                   boundaryVars, voltVars, arrowVars, loadVars, anatVars, drawVars,
                   registrationVars>>

\* plot_signals(times, signals, labels, gains), every signal with the same gain
PlotSignals(times, labels, gain) ==
    /\ LET r == plot_signals(signal_artists, times, Signals(Len(labels)), labels,
                             [k \in 1..Len(labels) |-> gain])
       IN  /\ signal_artists' = r.signal_artists
           /\ active_signal_label' = r.active_signal_label
    /\ widget_call' = Called("plot_signals", labels[1], None, FALSE)
    /\ UNCHANGED <<annotation_artists, background,
                   boundaryVars, voltVars, arrowVars, loadVars, anatVars, drawVars,
                   registrationVars>>

UpdateGain(gain) ==
    /\ LET r == update_gain(signal_artists, annotation_artists, active_signal_label, gain)
       IN  /\ signal_artists' = r.signal_artists
           /\ annotation_artists' = r.annotation_artists
           /\ widget_call' = Called("update_gain", gain, r.raised, FALSE)
    /\ UNCHANGED <<active_signal_label, background,
                   boundaryVars, voltVars, arrowVars, loadVars, anatVars, drawVars,
                   registrationVars>>

\* the lists of labels plot_signals is called with
PlottedLabels == { <<"Ref", "Bipolar">>, <<"Bipolar", "ECG">>, <<"ECG">> }

\* drawing, picking and plotting, every signal plotted from 0 ms on without gain
NextWidget ==
    \/ DrawEvent
    \/ \E label \in PickedLabels : Pick(label)
    \/ UpdateActiveArtist
    \/ ActivateFigure
    \/ \E labels \in PlottedLabels : PlotSignals(<<0, 2, 4>>, labels, 0)

SpecWidget == InitWidget /\ [][NextWidget]_vars

\* the first plot_signals of the widget
PlotSignalsOnce(times, labels, gain) ==
    /\ signal_artists = EmptyDict
    /\ PlotSignals(times, labels, gain)

\* one plot, then picks and gains
NextGain ==
    \/ \E label \in PickedLabels : Pick(label)
    \/ \E times \in TimeAxes, gain \in Gains, labels \in PlottedLabels :
          PlotSignalsOnce(times, labels, gain)
    \/ \E gain \in Gains : UpdateGain(gain)

SpecGain == InitWidget /\ [][NextGain]_vars

-----------------------------------------------------------------------------
(* The interactive registration script (non_sync_tests/                    *)
(* test_mesh_registration.py): its globals iter and all_iterations_points, *)
(* the registration held by source_case, and the sliders.  A point set is  *)
(* the list of the registration steps that made it from the points first   *)
(* loaded, so two point sets are equal when they were computed alike.      *)

\* the longest history the callbacks are followed to
MaxHistory == 3
\* the largest value of the 'Run for Iterations' slider that is tried
MaxRun == 1
\* the longest pickled history that is loaded
MaxPickled == 1

\* the states of the method button, in the order it switches through
MethodStates == <<"Rigid", "Affine", "Deformable">>

\* str.lower() of a state of the method button
Lower(status) ==
    IF status = "Rigid" THEN "rigid"
    ELSE IF status = "Affine" THEN "affine"
    ELSE "deformable"

\* source_mesh.vertices.copy() at the start of the script
SourcePoints == <<>>

\* the k-th point set of a pickled history that is loaded
PickledPoints(k) == [j \in 1..k |-> "pickled"]

\* Case.cpd_registration_init(method, target): a registration of the
\* points the case holds now
cpd_registration_init(c, method) == [c EXCEPT !.method = method, !.registered = c.points]

\* Case.cpd_registration_run_single_iteration(): one more step of the
\* registration; the case holds the points it returns
cpd_registration_run_single_iteration(c) ==
    LET points == Append(c.registered, c.method)
    IN  [c EXCEPT !.registered = points, !.points = points]

\* a slider given a new range: its value stays inside it
Ranged(slider, maximum) ==
    IF "value" \in DOMAIN slider
    THEN [slider EXCEPT !.max = maximum,
                        !.value = IF @ > maximum THEN maximum ELSE @]
    ELSE [slider EXCEPT !.max = maximum]

\* the globals and objects the callbacks work on
Script(i, history, c, s) ==
    [iter |-> i, all_iterations_points |-> history, source_case |-> c, sliders |-> s,
     raised |-> None]

\* run_single_iteration_button_cb
run_single_iteration_button_cb(st) ==
    LET i == st.iter + 1
        c == cpd_registration_run_single_iteration(st.source_case)
        points == c.points
    IN  [st EXCEPT !.iter = i,
                   !.source_case = c,
                   !.all_iterations_points =
                       IF i > Len(@) - 1 THEN Append(@, points)
                       ELSE [@ EXCEPT ![i + 1] = points]]

\* the loop of run_all_iterations_button_cb: count calls of the single iteration
RECURSIVE RunLoop(_, _)
RunLoop(st, count) ==
    IF count = 0 THEN st ELSE RunLoop(run_single_iteration_button_cb(st), count - 1)

\* a faulty run_all_iterations_button_cb: the history is not cut after the run
run_all_iterations_uncut(st, status) ==
    LET i_start == st.sliders.start_i_slider.value
        i_end == i_start + st.sliders.run_i_slider.value
    IN  IF i_start > Len(st.all_iterations_points) - 1
        THEN [st EXCEPT !.iter = i_start, !.raised = IndexError]
        ELSE RunLoop([st EXCEPT !.iter = i_start,
                                !.source_case = cpd_registration_init(
                                    [@ EXCEPT !.points = st.all_iterations_points[i_start + 1]],
                                    Lower(status))],
                     i_end - i_start)

\* run_all_iterations_button_cb, status the state of the method button;
\* all_iterations_points[i_start] raises IndexError past the end of the history
run_all_iterations_button_cb(st, status) ==
    LET i_start == st.sliders.start_i_slider.value
        i_end == i_start + st.sliders.run_i_slider.value
    IN  IF i_start > Len(st.all_iterations_points) - 1
        THEN [st EXCEPT !.iter = i_start, !.raised = IndexError]
        ELSE
        LET restarted ==
                [st EXCEPT !.iter = i_start,
                           !.source_case = cpd_registration_init(
                               [@ EXCEPT !.points = st.all_iterations_points[i_start + 1]],
                               Lower(status))]
            run == RunLoop(restarted, i_end - i_start)
            history == SubSeq(run.all_iterations_points, 1,
                              Min({i_end + 1, Len(run.all_iterations_points)}))
        IN  [run EXCEPT !.all_iterations_points = history,
                        !.sliders.i_slider = Ranged(@, Len(history) - 1),
                        !.sliders.start_i_slider = Ranged(@, Len(history) - 1)]

\* update_source_mesh: all_iterations_points[iter] raises IndexError past the end
update_source_mesh(st) ==
    IF st.iter > Len(st.all_iterations_points) - 1
    THEN [st EXCEPT !.raised = IndexError]
    ELSE st

\* i_slider_cb(w), value the integer part of w.value
i_slider_cb(st, value) == update_source_mesh([st EXCEPT !.iter = value])

\* load_points_button_cb, pickled the list the file holds
load_points_button_cb(st, pickled) ==
    update_source_mesh(
        [st EXCEPT !.all_iterations_points = pickled,
                   !.sliders.i_slider = Ranged(@, Len(pickled) - 1),
                   !.sliders.start_i_slider = Ranged(@, Len(pickled) - 1)])

\* cpd_set_method_button_cb, status the state the button switches to
cpd_set_method_button_cb(st, status) ==
    [st EXCEPT !.source_case = cpd_registration_init(@, Lower(status))]

-----------------------------------------------------------------------------
(* The script as a state machine: one action per callback                  *)

\* MainWindow.__init__
InitRegistration ==
    /\ mesh = ClosedCube
    /\ info = NoValue
    /\ fb = NoValue
    /\ sep = NoValue
    /\ lengths = NoValue
    /\ areas = NoValue
    /\ VoltIdle
    /\ ArrowsIdle
    /\ LoadIdle
    /\ AnatIdle
    /\ DrawIdle
    /\ WidgetIdle
    /\ iter = 0
    /\ all_iterations_points = <<SourcePoints>>
    /\ source_case = [points |-> SourcePoints, method |-> "rigid", registered |-> SourcePoints,
                      status |-> 1]
    /\ sliders = [i_slider |-> [max |-> 0],
                  start_i_slider |-> [max |-> 0, value |-> 0],
                  run_i_slider |-> [max |-> MaxRun, value |-> 0]]
    /\ callback = NoValue

\* the script as the callbacks see it
Now == Script(iter, all_iterations_points, source_case, sliders)

\* the script after a callback
Becomes(st, op) ==
    /\ iter' = st.iter
    /\ all_iterations_points' = st.all_iterations_points
    /\ source_case' = st.source_case
    /\ sliders' = st.sliders
    /\ callback' = [op |-> op, raised |-> st.raised]
    /\ UNCHANGED <<boundaryVars, voltVars, arrowVars, loadVars, anatVars, drawVars,
                   widgetVars>>

\* the registration is followed for MaxHistory steps
RunSingleIteration ==
    /\ Len(all_iterations_points) < MaxHistory
    /\ iter < MaxHistory
    /\ Len(source_case.registered) < MaxHistory
    /\ Becomes(run_single_iteration_button_cb(Now), "run_single_iteration")

RunAllIterations ==
    /\ sliders.start_i_slider.value + sliders.run_i_slider.value < MaxHistory
    /\ sliders.start_i_slider.value < Len(all_iterations_points) =>
           Len(all_iterations_points[sliders.start_i_slider.value + 1])
               + sliders.run_i_slider.value <= MaxHistory
    /\ Becomes(run_all_iterations_button_cb(Now, MethodStates[source_case.status]),
               "run_all_iterations")

\* the 'View Iteration' slider is moved
ViewIteration(value) ==
    /\ value \in 0..sliders.i_slider.max
    /\ Becomes(i_slider_cb(Now, value), "i_slider")

\* the 'Start Iteration' slider is moved; start_i_slider_cb does nothing
StartIteration(value) ==
    /\ value \in 0..sliders.start_i_slider.max
    /\ Becomes([Now EXCEPT !.sliders.start_i_slider.value = value], "start_i_slider")

\* the 'Run for Iterations' slider is moved; run_i_slider_cb does nothing
RunForIterations(value) ==
    /\ value \in 0..sliders.run_i_slider.max
    /\ Becomes([Now EXCEPT !.sliders.run_i_slider.value = value], "run_i_slider")

\* a pickled history of n point sets is loaded
LoadPoints(n) ==
    /\ n >= 1
    /\ Becomes(load_points_button_cb(Now, [k \in 1..n |-> PickledPoints(k)]), "load_points")

\* the method button is pressed: w.switch(), then the registration starts anew
SetMethod ==
    /\ source_case.status \in DOMAIN MethodStates
    /\ LET next == (source_case.status % Len(MethodStates)) + 1
       IN  Becomes(cpd_set_method_button_cb([Now EXCEPT !.source_case.status = next],
                                            MethodStates[next]),
                   "cpd_set_method")

NextRegistration ==
    \/ RunSingleIteration
    \/ RunAllIterations
    \/ \E value \in 0..MaxHistory : ViewIteration(value)
    \/ \E value \in 0..MaxHistory : StartIteration(value)
    \/ \E value \in 0..MaxRun : RunForIterations(value)
    \/ \E n \in 1..MaxPickled : LoadPoints(n)
    \/ SetMethod

SpecRegistration == InitRegistration /\ [][NextRegistration]_vars

\* the callbacks that run the registration or set what a run starts from;
\* the 'View Iteration' slider is left where it is
NextRun ==
    \/ RunSingleIteration
    \/ RunAllIterations
    \/ \E value \in 0..MaxHistory : StartIteration(value)
    \/ \E value \in 0..MaxRun : RunForIterations(value)
    \/ \E n \in 1..MaxPickled : LoadPoints(n)
    \/ SetMethod

SpecRun == InitRegistration /\ [][NextRun]_vars

-----------------------------------------------------------------------------
(* Vocabulary of the properties: the mesh's edges counted from its faces,  *)
(* and the metrics written out from a loop's points.                       *)

\* the undirected edges of the mesh's triangles
FaceEdgeSets(m) ==
    UNION { { {f[1], f[2]}, {f[2], f[3]}, {f[1], f[3]} } : f \in Range(m.faces) }

\* the triangles an undirected edge belongs to
TrianglesWith(m, e) == {i \in DOMAIN m.faces : e \subseteq Range(m.faces[i])}

\* the edges that belong to exactly one triangle
BoundaryEdgeSet(m) == {e \in FaceEdgeSets(m) : Cardinality(TrianglesWith(m, e)) = 1}

\* no boundary edge at all
ClosedMesh(m) == BoundaryEdgeSet(m) = {}

\* a valid open mesh: a 2-manifold with boundary.  No edge is shared by more than
\* two triangles and every vertex of the boundary meets exactly two boundary edges
ValidOpenMesh(m) ==
    LET boundary == BoundaryEdgeSet(m)
    IN  /\ boundary # {}
        /\ \A e \in FaceEdgeSets(m) : Cardinality(TrianglesWith(m, e)) <= 2
        /\ \A v \in UNION boundary : Cardinality({e \in boundary : v \in e}) = 2

\* the rows of a list of loops, as undirected edges with their place
LoopRows(loops) ==
    {<<i, j>> \in (1..Len(loops)) \X (1..Len(mesh.points)) : j <= Len(loops[i])}

RowEdge(loops, ij) == {loops[ij[1]][ij[2]][1], loops[ij[1]][ij[2]][2]}

\* rows (a, b) (b, c) ... (z, a) over pairwise different a, b, c, ... z
SimpleClosedCycle(rows) ==
    /\ \A j \in 1..(Len(rows) - 1) : rows[j][2] = rows[j + 1][1]
    /\ rows[Len(rows)][2] = rows[1][1]
    /\ \A j, k \in 1..Len(rows) : j # k => rows[j][1] # rows[k][1]

\* the coordinates of the first node of every row of a loop
LoopPoints(m, rows) == [j \in 1..Len(rows) |-> m.points[rows[j][1] + 1]]

\* the perimeter of the closed polygon through pts: k segments for k points
ClosedPerimeter(pts) ==
    SumSeq([j \in 1..Len(pts) |-> Norm(Sub3(pts[(j % Len(pts)) + 1], pts[j]))])

\* k * (the mean of the k points)
RECURSIVE SumPoints(_)
SumPoints(pts) == IF pts = <<>> THEN <<0, 0, 0>> ELSE Add3(pts[1], SumPoints(Tail(pts)))

\* the area of the fan around the centroid of pts: the k triangles
\* (centroid, p_j, p_(j+1 mod k))
FanArea(pts) ==
    LET k == Len(pts)
    IN  SumSeq([j \in 1..k |->
            TriangleArea(SumPoints(pts), Mul3(k, pts[j]), Mul3(k, pts[(j % k) + 1]), k)])

-----------------------------------------------------------------------------
(* C1: for every valid open mesh the loops separate_boundaries returns     *)
(* partition the boundary edges: every row is a boundary edge, every       *)
(* boundary edge is exactly one row of exactly one loop, and every loop is *)
(* a simple closed cycle of at least 3 vertices.                           *)
C1_LoopsPartitionBoundary ==
    (sep # NoValue /\ ValidOpenMesh(mesh)) =>
        LET boundary == BoundaryEdgeSet(mesh)
            rows == LoopRows(sep.v)
        IN  /\ \A ij \in rows : RowEdge(sep.v, ij) \in boundary
            /\ \A e \in boundary :
                   Cardinality({ij \in rows : RowEdge(sep.v, ij) = e}) = 1
            /\ \A i \in 1..Len(sep.v) :
                   Len(sep.v[i]) >= 3 /\ SimpleClosedCycle(sep.v[i])

C1_Witness ==
    /\ sep # NoValue
    /\ ValidOpenMesh(mesh)
    /\ Len(sep.v) >= 2
    /\ \E i, j \in 1..Len(sep.v) : Len(sep.v[i]) # Len(sep.v[j])

(* C2: an edge is among the pairs get_freeboundaries reports if and only   *)
(* if it belongs to exactly one triangle of the mesh.                      *)
C2_ReportedIffOneTriangle ==
    info.kind = "dict" =>
        {{info.freeboundary[i][1], info.freeboundary[i][2]} :
            i \in 1..Len(info.freeboundary)} = BoundaryEdgeSet(mesh)

C2_Witness ==
    /\ info.kind = "dict"
    /\ info.n_boundaries >= 2
    /\ \E e \in FaceEdgeSets(mesh) : Cardinality(TrianglesWith(mesh, e)) = 2

\* the case of an edge in more than two triangles: it is not reported either
C2_WitnessThreeTriangles ==
    /\ info.kind = "dict"
    /\ \E e \in FaceEdgeSets(mesh) : Cardinality(TrianglesWith(mesh, e)) = 3

(* C3: for a closed mesh get_freeboundaries completes with n_boundaries    *)
(* = 0 and no pairs, and the FreeBoundary built from it returns an empty   *)
(* list of loops and empty arrays of lengths and areas.                    *)
C3_ClosedMeshZeroLoops ==
    (ClosedMesh(mesh) /\ info # NoValue) =>
        /\ info.kind = "dict"
        /\ info.n_boundaries = 0
        /\ info.freeboundary = <<>>
        /\ sep # NoValue => sep.v = <<>>
        /\ lengths # NoValue => lengths.v = <<>>
        /\ areas # NoValue => areas.v = <<>>

(* C4: calculate_lengths returns for every loop the length of the closed   *)
(* polygon through its points: the closing segment from the last point to  *)
(* the first is part of it.                                                *)
C4_LengthIncludesClosingSegment ==
    lengths # NoValue =>
        \A i \in 1..Len(lengths.v) :
            lengths.v[i] = ClosedPerimeter(LoopPoints(mesh, separate_boundaries(fb)[i]))

(* C5: calculate_areas builds for a loop of k points the fan of exactly k  *)
(* triangles (centroid, p_j, p_(j+1 mod k)) around the mean of the k       *)
(* points, each once, none degenerate, and returns the sum of their areas. *)
C5_FanOfKTriangles ==
    areas # NoValue =>
        \A i \in 1..Len(areas.v) :
            LET rows == separate_boundaries(fb)[i]
                pts == LoopPoints(mesh, rows)
                k == Len(rows)
                pd == fb.boundary_meshes.v[i]
            IN  /\ pd.den = k
                /\ Len(pd.points) = k + 1
                /\ pd.points[1] = SumPoints(pts)
                /\ \A j \in 1..k : pd.points[j + 1] = Mul3(k, pts[j])
                /\ Len(pd.faces) = k
                /\ \A j \in 1..k : pd.faces[j] = <<0, j, (j % k) + 1>>
                /\ k >= 3 => \A j \in 1..k :
                       /\ Cardinality(Range(pd.faces[j])) = 3
                       /\ \A l \in 1..k : l # j => Range(pd.faces[l]) # Range(pd.faces[j])
                /\ areas.v[i] = FanArea(pts)

C5_Witness ==
    /\ areas # NoValue
    /\ Len(areas.v) >= 2
    /\ \E i \in 1..Len(areas.v) : Len(fb.boundary_meshes.v[i].faces) = 4 /\ areas.v[i] = Scale
    /\ \E i \in 1..Len(areas.v) : Len(fb.boundary_meshes.v[i].faces) = 3

(* C6: the unit cube without its top gives exactly 1 loop of 4 vertices,   *)
(* perimeter 4.0 and fan area 1.0.                                         *)
C6_OpenTopCube ==
    (mesh = OpenTopCube /\ lengths # NoValue /\ areas # NoValue) =>
        /\ fb.n_boundaries = 1
        /\ Len(separate_boundaries(fb)) = 1
        /\ Len(separate_boundaries(fb)[1]) = 4
        /\ lengths.v = <<4 * Scale>>
        /\ areas.v = <<Scale>>

(* C7: the flat mesh with two unit-square holes gives exactly 2 loops,     *)
(* each of 4 vertices and perimeter 4.0.                                   *)
C7_TwoSquareHoles ==
    (mesh = FlatTwoHoles /\ lengths # NoValue) =>
        /\ fb.n_boundaries = 2
        /\ Len(lengths.v) = 2
        /\ \A i \in 1..Len(lengths.v) :
               Len(separate_boundaries(fb)[i]) = 4 /\ lengths.v[i] = 4 * Scale

(* C8: both metrics return one value per loop in the extractor's order:    *)
(* entry i is computed from the points of loop i of separate_boundaries,   *)
(* which is the i-th loop the extractor emitted (its n_i - 1 pairs, a      *)
(* chain of pairs that joins no two loops).                                *)
C8_OneValuePerLoopInOrder ==
    LET loops == separate_boundaries(fb)
        OfLoop(i) == LoopPoints(mesh, loops[i])
    IN  /\ fb # NoValue =>
               /\ Len(loops) = fb.n_boundaries
               /\ \A i \in 1..Len(loops) :
                      /\ Len(loops[i]) = info.n_nodes_per_boundary[i] - 1
                      /\ \A j \in 1..(Len(loops[i]) - 1) :
                             loops[i][j][2] = loops[i][j + 1][1]
        /\ lengths # NoValue =>
               /\ Len(lengths.v) = fb.n_boundaries
               /\ \A i \in 1..Len(lengths.v) : lengths.v[i] = line_length(OfLoop(i))
        /\ areas # NoValue =>
               /\ Len(areas.v) = fb.n_boundaries
               /\ \A i \in 1..Len(areas.v) : areas.v[i] = FanArea(OfLoop(i))

C8_Witness ==
    /\ lengths # NoValue
    /\ areas # NoValue
    /\ fb.n_boundaries >= 2
    /\ \E i, j \in 1..Len(lengths.v) : lengths.v[i] # lengths.v[j] /\ areas.v[i] # areas.v[j]

C10_CaseNotMutated == [][mesh_case' = mesh_case]_vars

-----------------------------------------------------------------------------
(* Vocabulary of the interpolation properties *)

\* the mapping point's stored electrogram holds no not-a-number
DefinedAmplitude(c, p) == \A s \in 1..NumSamples : ~IsNaN(c.egm[s][p])

\* peak-to-peak amplitude of the mapping point's stored electrogram
PeakToPeak(c, p) ==
    LET values == {c.egm[s][p].num : s \in 1..NumSamples}
    IN  (CHOOSE x \in values : \A y \in values : y <= x) - Min(values)

\* the mapping points that are samples of the fit: inside the window of
\* interest, with a defined amplitude
ValidPoints(c) ==
    {p \in 1..NumPoints : c.within_woi[p] /\ DefinedAmplitude(c, p)}

\* C11: a mapping point outside the window of interest is removed before the
\* fit: its position is never among the (position, value) pairs handed to the
\* interpolator, and every mapping point inside the window with a defined
\* amplitude is handed to it, with its amplitude, and nothing else is.
C11_OutsideWindowNeverFitted ==
    interp_call # NoValue =>
        LET x0 == interp_call.x0
            d0 == interp_call.d0
        IN  /\ Len(x0) = Len(d0)
            /\ Len(x0) = Cardinality(ValidPoints(mesh_case))
            /\ \A p \in 1..NumPoints :
                   ~mesh_case.within_woi[p] =>
                       \A i \in 1..Len(x0) : x0[i] # mesh_case.egmX[p]
            /\ \A p \in ValidPoints(mesh_case) :
                   \E i \in 1..Len(x0) :
                       /\ x0[i] = mesh_case.egmX[p]
                       /\ d0[i] = Float(PeakToPeak(mesh_case, p))

\* a fit was made for a case with a point outside the window, points inside
\* with a defined amplitude and one inside without
C11_Witness ==
    /\ interp_call # NoValue
    /\ \E p \in 1..NumPoints : ~mesh_case.within_woi[p]
    /\ \E p \in 1..NumPoints : mesh_case.within_woi[p] /\ ~DefinedAmplitude(mesh_case, p)
    /\ Len(interp_call.x0) >= 2

\* squared distance of two positions
Dist2(p, q) == Dot3(Sub3(p, q), Sub3(p, q))

\* the vertex is farther than the interpolator's threshold from every sample
\* that was handed to the fit
OutOfRange(vertex) ==
    \A i \in 1..Len(interp_call.x0) :
        Dist2(interp_call.x0[i], vertex) > interp.distanceThreshold * interp.distanceThreshold

ThreeSamplesScenario ==
    /\ interp.distanceThreshold = 1
    /\ interp_call.x0 = << <<0, 0, 0>>, <<2, 0, 0>>, <<0, 2, 0>> >>
    /\ interp_call.d0 = <<Float(1), Float(2), Float(3)>>
    /\ interp_call.x1 = << <<10, 10, 10>>, <<0, 0, 0>> >>

-----------------------------------------------------------------------------
(* Vocabulary of the container properties *)

\* the arrows with one row per cell of the surface
CellAligned == {"fibres", "divergence", "linear_connection_regions"}

\* what an Arrows object holds, whichever ndarray objects hold it
Contents(self) ==
    [arrow \in DOMAIN self |->
        IF self[arrow].kind = "ndarray" THEN Some(self[arrow].data) ELSE None]

\* C15: attaching an arrow array whose length disagrees with the number of
\* cells it is aligned to fails with ShapeMismatchError and leaves the store
\* unchanged (stated for item assignment on the container).
C15_MismatchedLengthRejected ==
    [][(/\ last_call'.op = "setitem"
        /\ last_call'.arrow \in CellAligned
        /\ last_call'.length # NumCells)
       => (/\ raised' = ShapeMismatchError
           /\ arrows' = arrows
           /\ arrows_copy' = arrows_copy)]_vars

\* C20: Arrows.copy returns a deep copy: every arrow set in the original is
\* set in the copy with equal contents, every arrow that is None in the
\* original is None in the copy, and a later call that modifies an array or
\* an item of the copy leaves the original unchanged, and the other way round.
C20_CopyIsDeep ==
    [][/\ (arrows_copy = NoValue /\ arrows_copy' # NoValue) =>
              /\ Contents(arrows_copy') = Contents(arrows)
              /\ Contents(arrows') = Contents(arrows)
       /\ (arrows_copy # NoValue /\ last_call'.target = "arrows_copy") =>
              Contents(arrows') = Contents(arrows)
       /\ (arrows_copy # NoValue /\ last_call'.target = "arrows") =>
              Contents(arrows_copy') = Contents(arrows_copy)]_vars

\* a copy was made of an object with an arrow set and an arrow None, and an
\* array of the copy was written into afterwards
C20_Witness ==
    /\ arrows_copy # NoValue
    /\ last_call.op = "write"
    /\ last_call.target = "arrows_copy"
    /\ arrows["divergence"].kind = "None"
    /\ arrows_copy["divergence"].kind = "None"
    /\ arrows["fibres"].kind = "ndarray"
    /\ Contents(arrows_copy) # Contents(arrows)

\* the triangles the file describes, with indices from 0
DescribedTriangles(f) ==
    IF f.kind = "opencarp"
    THEN LET triangle_lines == SelectSeq(f.lines, LAMBDA l : l.type = "Tr")
         IN  [i \in 1..Len(triangle_lines) |-> SubSeq(triangle_lines[i].args, 1, 3)]
    ELSE IF f.kind = "vtk"
    THEN [i \in 1..f.n_cells |->
             <<f.faces[4 * i - 2], f.faces[4 * i - 1], f.faces[4 * i]>>]
    ELSE [i \in 1..Len(f.Triangulation) |->
             <<f.Triangulation[i][1] - 1, f.Triangulation[i][2] - 1,
               f.Triangulation[i][3] - 1>>]

\* every index of the triangles is in [0, n)
FacesInRange(triangles, n) ==
    \A i \in 1..Len(triangles) : \A k \in 1..3 :
        triangles[i][k] >= 0 /\ triangles[i][k] < n

-----------------------------------------------------------------------------
(* Vocabulary of the junction and staleness properties *)

\* a boundary vertex with more than 2 boundary edges
HasJunction(m) ==
    LET boundary == BoundaryEdgeSet(m)
    IN  \E v \in UNION boundary : Cardinality({e \in boundary : v \in e}) > 2

\* rows (a, b) (b, c) ... (z, a)
ClosedWalk(rows) ==
    /\ Len(rows) >= 3
    /\ \A j \in 1..(Len(rows) - 1) : rows[j][2] = rows[j + 1][1]
    /\ rows[Len(rows)][2] = rows[1][1]

\* C17: when a boundary vertex has more than 2 boundary edges, extraction
\* does not fail and still produces a complete, edge-disjoint partition of the
\* boundary edges into closed loops, and the same mesh always gives the same
\* loops.
C17_JunctionsGiveClosedLoops ==
    (sep # NoValue /\ HasJunction(mesh)) =>
        LET boundary == BoundaryEdgeSet(mesh)
            rows == {<<i, j>> \in (1..Len(sep.v)) \X (1..Len(info.freeboundary)) :
                        j <= Len(sep.v[i])}
        IN  /\ info.kind = "dict"
            /\ \A ij \in rows : RowEdge(sep.v, ij) \in boundary
            /\ \A e \in boundary :
                   Cardinality({ij \in rows : RowEdge(sep.v, ij) = e}) = 1
            /\ \A i \in 1..Len(sep.v) : ClosedWalk(sep.v[i])
            /\ \A boundaries_lines \in Outlines(mesh) :
                   get_freeboundaries(mesh, boundaries_lines) = info

\* C18: the metrics are never stale: after the mesh held by a FreeBoundary
\* has changed, calculate_lengths and calculate_areas return the values of the
\* changed mesh (the length and the fan area of every loop's points as the
\* mesh holds them now), never values stored or cached before the change.
C18_MetricsNeverStale ==
    LET loops == separate_boundaries(fb)
        OfLoop(i) == LoopPoints(mesh, loops[i])
    IN  ValidOpenMesh(mesh) =>
            /\ lengths # NoValue =>
                   \A i \in 1..Len(lengths.v) : lengths.v[i] = line_length(OfLoop(i))
            /\ areas # NoValue =>
                   \A i \in 1..Len(areas.v) : areas.v[i] = FanArea(OfLoop(i))

\* C19: for a case whose mesh has at least one free boundary,
\* get_anatomical_structures completes without raising and returns the
\* boundary points, the perimeters and the areas as lists of equal length, one
\* entry per loop; with plot=True it draws them through draw_free_boundaries
\* without raising.
C19_AnatomicalStructuresReturned ==
    (anat # NoValue /\ ~ClosedMesh(mesh)) =>
        /\ anat.result.kind = "dict"
        /\ Len(anat.result.FreeboundaryPoints) >= 1
        /\ Len(anat.result.Lengths) = Len(anat.result.FreeboundaryPoints)
        /\ Len(anat.result.Area) = Len(anat.result.FreeboundaryPoints)

-----------------------------------------------------------------------------
\* C21: draw_free_boundaries with its default colours adds exactly one closed
\* polyline (the points of the loop, then its first point again) for every loop
\* of the FreeBoundary, however many loops there are; it never fails because of
\* their number.
C21_OnePolylinePerLoop ==
    plotter # NoValue =>
        LET loops == separate_boundaries(fb)
        IN  /\ plotter.kind = "Plotter"
            /\ Len(plotter.lines) = Len(loops)
            /\ \A i \in 1..Len(loops) :
                   LET points == LoopPoints(mesh, loops[i])
                   IN  plotter.lines[i].points = Append(points, points[1])

-----------------------------------------------------------------------------
\* the (0-based) row of freeboundary where loop i starts: the sum over the
\* loops j before it of n[j] - 1
LoopOffset(n, i) == SumSeq([j \in 1..(i - 1) |-> n[j] - 1])

\* the first nodes of the rows first + 1 .. first + count of pairs (1-based)
FirstNodes(pairs, first, count) == {pairs[first + j][1] : j \in 1..count}

\* C22: in the output of get_freeboundaries for loops of n[1] .. n[m] outline
\* nodes (closing node included), loop i occupies exactly the n[i] - 1
\* consecutive rows of freeboundary from row LoopOffset(n, i) on, and these are
\* the start and stop offsets FreeBoundary.__post_init__ computes; within them
\* every pair's second node is the next pair's first node, the last pair's
\* second node is the first pair's first node, and no row pairs nodes of two
\* different loops.
C22_LoopRowsMatchOffsets ==
    (fb # NoValue /\ ValidOpenMesh(mesh)) =>
        LET n == info.n_nodes_per_boundary
            m == Len(n)
            pairs == info.freeboundary
            Row(i, j) == pairs[LoopOffset(n, i) + j]
            Nodes(i) == FirstNodes(pairs, LoopOffset(n, i), n[i] - 1)
        IN  /\ Len(pairs) = LoopOffset(n, m + 1)
            /\ Len(fb.start_indices) = m /\ Len(fb.stop_indices) = m
            /\ \A i \in 1..m :
                   /\ fb.start_indices[i] = LoopOffset(n, i)
                   /\ fb.stop_indices[i] =
                          IF i < m THEN Some(LoopOffset(n, i + 1)) ELSE None
                   /\ \A j \in 1..(n[i] - 2) : Row(i, j)[2] = Row(i, j + 1)[1]
                   /\ Row(i, n[i] - 1)[2] = Row(i, 1)[1]
                   /\ \A j \in 1..(n[i] - 1) : Row(i, j)[2] \in Nodes(i)
                   /\ \A k \in 1..m : k # i => Nodes(i) \cap Nodes(k) = {}

\* two loops of different sizes, so that the second one starts at an offset that
\* is neither 0 nor a multiple of one loop size
C22_Witness ==
    /\ fb # NoValue
    /\ ValidOpenMesh(mesh)
    /\ Len(info.n_nodes_per_boundary) >= 2
    /\ info.n_nodes_per_boundary[1] # info.n_nodes_per_boundary[2]

-----------------------------------------------------------------------------
\* the 'Tr' lines of an element file, in the order of the file
TriangleLines(f) == SelectSeq(f.lines, LAMBDA l : l.type = "Tr")

\* C23: after load_opencarp the per-cell field cell_region has exactly one entry
\* per triangle of the returned indices, in the same order: triangle i and
\* region i are those of the i-th 'Tr' line of the element file, whatever 'Ln'
\* lines and lines of other element types are mixed with the 'Tr' lines; these
\* never add a triangle or a region entry, and a file whose triangles are in
\* range is loaded.
C23_OneRegionPerTriangle ==
    (loaded # NoValue /\ file.kind = "opencarp") =>
        LET lines == TriangleLines(file)
        IN  /\ FacesInRange(DescribedTriangles(file), Len(file.points)) =>
                   loaded.kind = "Case"
            /\ loaded.kind = "Case" =>
                   /\ Len(loaded.indices) = Len(lines)
                   /\ loaded.fields.cell_region.kind = "value"
                   /\ Len(loaded.fields.cell_region.v) = Len(lines)
                   /\ \A i \in 1..Len(lines) :
                          /\ loaded.indices[i] = SubSeq(lines[i].args, 1, 3)
                          /\ loaded.fields.cell_region.v[i] = lines[i].args[4]

\* a file was loaded in which a linear connection and a tetrahedron stand
\* before and between two triangles
C23_Witness ==
    /\ loaded # NoValue
    /\ loaded.kind = "Case"
    /\ file.kind = "opencarp"
    /\ Len(file.lines) = 5
    /\ file.lines[2].type = "Ln"
    /\ file.lines[3].type = "Tr"
    /\ file.lines[4].type = "Tt"
    /\ file.lines[5].type = "Tr"
    /\ Len(loaded.indices) = 2

-----------------------------------------------------------------------------
\* the names an Arrows object iterates over and reports with 'in'
IteratedNames(self) == DOMAIN self

\* C24: item assignment with a name that is not an arrow name raises ValueError
\* and leaves every stored arrow unchanged, and item lookup with such a name
\* raises ValueError; after any item assignment or lookup, failed or not, the
\* names iterated and reported by 'in' are exactly fibres, divergence,
\* linear_connections and linear_connection_regions.
C24_UnknownNamesRejected ==
    [][/\ IteratedNames(arrows') = Range(ArrowNames)
       /\ last_call'.arrow \notin Range(ArrowNames) =>
              /\ raised' = ValueError
              /\ arrows' = arrows
       /\ last_call'.arrow \in Range(ArrowNames) => raised' = None]_vars

\* an object that holds an array was assigned an item under an unknown name
C24_Witness ==
    /\ last_call # NoValue
    /\ last_call.op = "setitem"
    /\ last_call.arrow = "colour"
    /\ raised = ValueError
    /\ \E arrow \in Range(ArrowNames) : arrows[arrow] # None

-----------------------------------------------------------------------------
\* C25: blit_artists may be called before any draw event has been received:
\* when no background is stored yet it runs the draw handler and stores one
\* instead of failing, in every order of picks, update_active_artist and
\* activate_figure after the construction of the widget.
C25_BlitBeforeDraw ==
    [][(widget_call'.redrawn /\ background # Captured) =>
           /\ widget_call'.raised = None
           /\ background' = Captured]_vars

\* the labels of the signal artists that have the active colour
ActiveColoured == {label \in DOMAIN signal_artists :
                      signal_artists[label].colour = active_colour}

\* C26: once plot_signals has been called, after any sequence of plot_signals
\* calls and pick events exactly one artist of signal_artists has the colour
\* 'xkcd:azure', the one stored under active_signal_label, which is a key of
\* signal_artists.
C26_OneActiveArtist ==
    active_signal_label # None =>
        /\ active_signal_label.v \in DOMAIN signal_artists
        /\ ActiveColoured = {active_signal_label.v}

\* C27: _on_pick changes the active signal only when the label of the picked
\* artist is a key of signal_artists and differs from active_signal_label; a
\* pick of the active signal, or of an artist that is no managed signal, leaves
\* active_signal_label and every artist unchanged and redraws nothing.
C27_PickFrame ==
    [][widget_call'.op = "_on_pick" =>
           LET label == widget_call'.arg
               managed == label \in DOMAIN signal_artists
               active == active_signal_label = Some(label)
           IN  /\ active_signal_label' # active_signal_label => (managed /\ ~active)
               /\ (active \/ ~managed) =>
                      /\ active_signal_label' = active_signal_label
                      /\ signal_artists' = signal_artists
                      /\ background' = background
                      /\ ~widget_call'.redrawn
                      /\ widget_call'.raised = None
               /\ (managed /\ ~active) => active_signal_label' = Some(label)]_vars

\* the active one of two signals was picked again
C27_Witness ==
    /\ widget_call # NoValue
    /\ widget_call.op = "_on_pick"
    /\ active_signal_label = Some(widget_call.arg)
    /\ ~widget_call.redrawn
    /\ Cardinality(DOMAIN signal_artists) >= 2

\* C28: update_gain(g) sets the y-data of the active signal from the stored
\* original data and offset, ystart + original_ydata * exp(g), not from the data
\* on display, so gains do not accumulate: a gain applied after this one leaves
\* what it leaves when applied alone, and the gain 0 gives the trace without
\* gain; the stored data and the y-data of every other signal are unchanged.
C28_GainFromOriginal ==
    [][(widget_call'.op = "update_gain" /\ active_signal_label # None) =>
           LET label == active_signal_label.v
               gain == widget_call'.arg
               before == signal_artists[label]
               after == signal_artists'[label]
           IN  /\ DOMAIN signal_artists' = DOMAIN signal_artists
               /\ \A other \in DOMAIN signal_artists \ {label} :
                      signal_artists'[other] = signal_artists[other]
               /\ after.original_ydata = before.original_ydata
               /\ after.ystart = before.ystart
               /\ after.ydata = [i \in DOMAIN before.original_ydata |->
                                    before.ystart + before.original_ydata[i] * Exp(gain)]
               /\ gain = 0 =>
                      after.ydata = [i \in DOMAIN before.original_ydata |->
                                        before.ystart + before.original_ydata[i] * Scale]
               /\ \A next \in Gains :
                      update_gain(signal_artists', annotation_artists',
                                  active_signal_label', next).signal_artists
                      = update_gain(signal_artists, annotation_artists,
                                    active_signal_label, next).signal_artists]_vars

\* a gain was applied to the active one of two signals whose data on display
\* had a gain already
C28_Witness ==
    /\ widget_call # NoValue
    /\ widget_call.op = "update_gain"
    /\ widget_call.arg = 0
    /\ widget_call.raised = None
    /\ active_signal_label # None
    /\ Cardinality(DOMAIN signal_artists) >= 2
    /\ \E label \in DOMAIN signal_artists :
           /\ Some(label) # active_signal_label
           /\ signal_artists[label].ydata #
                  [i \in DOMAIN signal_artists[label].original_ydata |->
                      signal_artists[label].ystart
                      + signal_artists[label].original_ydata[i] * Scale]

-----------------------------------------------------------------------------
(* The registration script                                                 *)

\* C29: after every callback that completed, iter is the index of an entry
\* of the history: 0 <= iter <= len(all_iterations_points) - 1
C29_IterWithinHistory ==
    (callback # NoValue /\ callback.raised = None) =>
        /\ 0 <= iter
        /\ iter <= Len(all_iterations_points) - 1

\* the point set made from a stored one by count steps of a method
RECURSIVE Stepped(_, _, _)
Stepped(points, method, count) ==
    IF count = 0 THEN points ELSE Append(Stepped(points, method, count - 1), method)

\* C30: run_all_iterations_button_cb with a valid start s and a run of r
\* restarts the registration from the stored set s with the method of the
\* button and makes exactly r single iterations: iter ends at s + r, the
\* history has exactly s + r + 1 entries, entries 0..s are as before, entries
\* s+1..s+r are the new steps, and everything beyond is discarded
C30_RunAllRestartsFromStart ==
    [][(callback'.op = "run_all_iterations" /\ callback'.raised = None) =>
          LET s == sliders.start_i_slider.value
              r == sliders.run_i_slider.value
              method == Lower(MethodStates[source_case.status])
          IN  /\ s <= Len(all_iterations_points) - 1
              /\ iter' = s + r
              /\ Len(all_iterations_points') = s + r + 1
              /\ \A k \in 0..s : all_iterations_points'[k + 1] = all_iterations_points[k + 1]
              /\ \A k \in 1..r :
                     all_iterations_points'[s + k + 1] =
                         Stepped(all_iterations_points[s + 1], method, k)
              /\ source_case'.points = Stepped(all_iterations_points[s + 1], method, r)
              /\ source_case'.method = method
      ]_vars

\* a run of one iteration or more was made from a stored set other than the
\* first, and the sets it made differ from the set it started from
C30_Witness ==
    /\ callback # NoValue
    /\ callback.op = "run_all_iterations"
    /\ callback.raised = None
    /\ sliders.start_i_slider.value >= 1
    /\ sliders.run_i_slider.value >= 1
    /\ iter = sliders.start_i_slider.value + sliders.run_i_slider.value
    /\ Len(all_iterations_points) = iter + 1
    /\ all_iterations_points[iter + 1] # all_iterations_points[sliders.start_i_slider.value + 1]

====
